---- MODULE Spec2Model ----
(***************************************************************************)
(* A model of the Polymarket order-book monitor (orderbook_monitor.py) and *)
(* of its arbitrage executor (arbitrage_executor.py).                      *)
(*                                                                         *)
(* Numbers.  Every Python float of the program (a price, a stake, a        *)
(* profit, a total) is modelled as an exact rational [n, d] in lowest      *)
(* terms with d > 0, so that equalities such as stake1 + stake2 = bankroll *)
(* are the exact-arithmetic statements.  A division by zero is Python's    *)
(* ZeroDivisionError and is modelled by the *_raises predicates.  Order    *)
(* sizes and wall-clock timestamps are whole numbers.                      *)
(*                                                                         *)
(* Strings.  A market name is a sequence of atoms; the atom SEP stands for *)
(* the separator " - " on which check_best_matches splits the name.        *)
(***************************************************************************)
EXTENDS Integers, Sequences, FiniteSets, TLC

VARIABLES
    \* ---- OrderbookMonitor (orderbook_monitor.py, __init__) ----
    subscribed_markets,   \* dict event_id -> SportMatch, as the sequence of its keys in insertion order
    orderbook_data,       \* token -> bounded history of snapshots
    ath_records,          \* <<token, side>> -> ATHRecord
    atl_records,          \* <<token, side>> -> ATLRecord
    current_snapshots,    \* dict token -> snapshot, as the sequence of its values in insertion order
    token_to_market,      \* token -> market name
    market_to_token,      \* market name -> token
    best_matches,         \* list of BestMatch
    total_records,        \* list of TotalRecord
    last_totals,          \* pair key -> last recorded total
    arbitrage_executor,   \* TRUE when an ArbitrageExecutor is attached
    running,              \* the cooperative running flag
    feeds,                \* the live feed-loop threads: position -> number of threads there
    sleeping,             \* the delay of the reconnect sleep in progress, 0 when no thread sleeps
    cursors,              \* the iterators over subscribed_markets.items() that feed threads hold (line 276)
    blocked,              \* the scans of feed threads that wait in an executor call (line 698)
    now,                  \* time.time(), a clock that ticks at every ingest
    observed,             \* <<token, side>> -> the set of prices ingested so far (history variable)
    arrivals,             \* token -> every snapshot ingested for it, in arrival order (history variable)
    last_frame,           \* the order book most recently turned into a snapshot (history variable)
    poll,                 \* the thread running poll_orderbooks: its position and the fetches of its cycle
    \* ---- ArbitrageExecutor (arbitrage_executor.py, __init__) ----
    client,               \* "ClobClient" or "None"
    bankroll,
    min_profit_percent,
    auto_execute,
    executions,           \* list of ArbitrageExecution
    total_profit,
    successful_trades,
    failed_trades,
    \* ---- the trading client and the callers of the executor ----
    client_calls,         \* every create_order / cancel_order call made on the trading client
    last_call,            \* how the last ArbitrageExecutor.execute_arbitrage call ended
    \* ---- a pure function applied to drawn inputs ----
    calc

store_vars == <<orderbook_data, ath_records, atl_records, current_snapshots, now, observed,
               arrivals, last_frame>>

detector_vars == <<best_matches, total_records, last_totals>>

registry_vars == <<token_to_market, market_to_token>>

monitor_vars == <<subscribed_markets, store_vars, detector_vars, registry_vars,
                  arbitrage_executor, running, feeds, sleeping, cursors, blocked, poll>>

config_vars == <<client, bankroll, min_profit_percent, auto_execute>>

executor_vars == <<executions, total_profit, successful_trades, failed_trades,
                   client_calls, last_call>>

vars == <<monitor_vars, config_vars, executor_vars, calc>>

----------------------------------------------------------------------------
(* Exact rationals standing for Python floats.                             *)

RECURSIVE GCD(_, _)
GCD(a, b) ==
    IF b = 0 THEN a ELSE GCD(b, a % b)

Abs(x) ==
    IF x < 0 THEN -x ELSE x

\* n/d in lowest terms with a positive denominator (d # 0).
Rat(n, d) ==
    LET g == GCD(Abs(n), Abs(d))
        s == IF d < 0 THEN -1 ELSE 1
    IN  [n |-> (s * n) \div g, d |-> (s * d) \div g]

Zero ==
    Rat(0, 1)

FAdd(a, b) ==
    Rat(a.n * b.d + b.n * a.d, a.d * b.d)

FSub(a, b) ==
    Rat(a.n * b.d - b.n * a.d, a.d * b.d)

FMul(a, b) ==
    Rat(a.n * b.n, a.d * b.d)

\* a / b for b # 0 (Python raises ZeroDivisionError for b = 0).
FDiv(a, b) ==
    Rat(a.n * b.d, a.d * b.n)

FLt(a, b) ==
    a.n * b.d < b.n * a.d

FGe(a, b) ==
    ~FLt(a, b)

FAbs(a) ==
    Rat(Abs(a.n), a.d)

----------------------------------------------------------------------------
(* The stake calculator and the gate (arbitrage_executor.py).              *)

calculate_stakes_raises(price1, price2, bank) ==
    FAdd(price1, price2) = Zero

calculate_stakes_swapped(price1, price2, bank) ==
    LET total_price == FAdd(price1, price2)
    IN  <<FDiv(FMul(bank, price2), total_price), FDiv(FMul(bank, price1), total_price)>>

calculate_stakes(price1, price2, bank) ==
    LET total_price == FAdd(price1, price2)
        stake1 == FDiv(FMul(bank, price1), total_price)
        stake2 == FDiv(FMul(bank, price2), total_price)
    IN  <<stake1, stake2>>

calculate_stakes_3way_raises(price1, price2, price3, bank) ==
    FAdd(FAdd(price1, price2), price3) = Zero

calculate_stakes_3way_copy(price1, price2, price3, bank) ==
    LET total_price == FAdd(FAdd(price1, price2), price3)
    IN  <<FDiv(FMul(bank, price1), total_price), FDiv(FMul(bank, price2), total_price),
          FDiv(FMul(bank, price2), total_price)>>

calculate_stakes_3way_thirds(price1, price2, price3, bank) ==
    <<FDiv(bank, Rat(3, 1)), FDiv(bank, Rat(3, 1)), FDiv(bank, Rat(3, 1))>>

calculate_stakes_3way(price1, price2, price3, bank) ==
    LET total_price == FAdd(FAdd(price1, price2), price3)
        stake1 == FDiv(FMul(bank, price1), total_price)
        stake2 == FDiv(FMul(bank, price2), total_price)
        stake3 == FDiv(FMul(bank, price3), total_price)
    IN  <<stake1, stake2, stake3>>

calculate_profit_raises(price1, price2, stake1, stake2) ==
    price1 = Zero \/ price2 = Zero

calculate_profit_payout(price1, price2, stake1, stake2) ==
    FDiv(FAdd(FDiv(stake1, price1), FDiv(stake2, price2)), Rat(2, 1))

calculate_profit(price1, price2, stake1, stake2) ==
    LET payout1 == FDiv(stake1, price1)
        profit1 == FSub(payout1, FAdd(stake1, stake2))
        payout2 == FDiv(stake2, price2)
        profit2 == FSub(payout2, FAdd(stake1, stake2))
    IN  FDiv(FAdd(profit1, profit2), Rat(2, 1))

\* should_execute divides by total only after the two early returns.
should_execute_raises(auto, min_profit, total) ==
    auto /\ FLt(total, Rat(1, 1)) /\ total = Zero

should_execute_ungated(auto, min_profit, total) ==
    IF FGe(total, Rat(1, 1)) THEN FALSE
    ELSE LET profit_percent == FMul(FDiv(FSub(Rat(1, 1), total), total), Rat(100, 1))
         IN  IF FLt(profit_percent, min_profit) THEN FALSE ELSE TRUE

should_execute_any_profit(auto, min_profit, total) ==
    IF ~auto THEN FALSE
    ELSE IF FGe(total, Rat(1, 1)) THEN FALSE
    ELSE TRUE

should_execute(auto, min_profit, total) ==
    IF ~auto THEN FALSE
    ELSE IF FGe(total, Rat(1, 1)) THEN FALSE
    ELSE LET profit_percent == FMul(FDiv(FSub(Rat(1, 1), total), total), Rat(100, 1))
         IN  IF FLt(profit_percent, min_profit) THEN FALSE ELSE TRUE

----------------------------------------------------------------------------
(* Bounds and drawn inputs.                                                *)

\* No handler that reads the clock runs once the clock has reached MaxClock.
MaxClock == 3

\* The execution log is capped when the executor is driven directly.
MaxExecutions == 2

P(c) ==
    Rat(c, 100)

\* Prices (in dollars) the inputs are drawn from; 0 is a price the feed can send.
Prices ==
    {P(0), P(30), P(32), P(35), P(48), P(49), P(60)}

Bankrolls ==
    {Rat(0, 1), Rat(11, 1), Rat(100, 1)}

\* Totals handed to should_execute: 0.97, 0.995, 1.0 (the spec's examples),
\* 0.80 and 0.50 (profit of exactly 25% and 100%), 0 and 1.2.
Totals ==
    {Rat(97, 100), Rat(995, 1000), Rat(1, 1), Rat(80, 100), Rat(50, 100), Rat(0, 1), Rat(120, 100)}

MinProfits ==
    {Rat(1, 1), Rat(25, 1)}

\* What the trading client does on one execution: create_order on leg 1 and
\* on leg 2 returns an id, returns no id or throws; cancel_order returns or throws.
Behaviours ==
    { [leg1 |-> "no_id",  leg2 |-> "id",     cancel |-> "ok"],
      [leg1 |-> "throws", leg2 |-> "id",     cancel |-> "ok"],
      [leg1 |-> "id",     leg2 |-> "id",     cancel |-> "ok"],
      [leg1 |-> "id",     leg2 |-> "no_id",  cancel |-> "ok"],
      [leg1 |-> "id",     leg2 |-> "no_id",  cancel |-> "throws"],
      [leg1 |-> "id",     leg2 |-> "throws", cancel |-> "ok"],
      [leg1 |-> "id",     leg2 |-> "throws", cancel |-> "throws"] }

----------------------------------------------------------------------------
(* ArbitrageExecutor.place_order and execute_arbitrage.                    *)
(* An Optional value is a sequence: <<>> is None, <<x>> is x.              *)

\* One call on the trading client, as the client saw it.
ClientCall(op, token_id, price, size, order_id, outcome) ==
    [op |-> op, token_id |-> token_id, price |-> price, size |-> size,
     order_id |-> order_id, outcome |-> outcome]

\* place_order with the calls made so far: the order id (or None) and the calls after it.
place_order(calls, token_id, side, price, size, outcome) ==
    IF client = "None"
    THEN [order_id |-> <<>>, calls |-> calls]
    ELSE [order_id |-> IF outcome = "id" THEN <<Len(calls) + 1>> ELSE <<>>,
          calls |-> Append(calls, ClientCall("create_order", token_id, price, size,
                                             IF outcome = "id" THEN <<Len(calls) + 1>> ELSE <<>>,
                                             outcome))]

\* Lines 240-255 run outside the try block: a ZeroDivisionError there leaves execute_arbitrage.
execute_arbitrage_raises(opportunity) ==
    \/ calculate_stakes_raises(opportunity.side1_price, opportunity.side2_price, bankroll)
    \/ calculate_profit_raises(opportunity.side1_price, opportunity.side2_price, Zero, Zero)

\* The cancel of leg 1 after a failed leg 2 (lines 284-291).
cancel_leg1_retry(calls, order1_id, outcome) ==
    IF outcome = "throws"
    THEN calls \o << ClientCall("cancel_order", "-", Zero, Zero, order1_id, outcome),
                     ClientCall("cancel_order", "-", Zero, Zero, order1_id, outcome) >>
    ELSE Append(calls, ClientCall("cancel_order", "-", Zero, Zero, order1_id, outcome))

cancel_leg1(calls, order1_id, outcome) ==
    Append(calls, ClientCall("cancel_order", "-", Zero, Zero, order1_id, outcome))

ExecutionOutcome_profit_on_failure(opportunity, stakes, order1_id, order2_id, error, calls, ts) ==
    [execution |-> [opportunity |-> opportunity, bankroll |-> bankroll,
                    stake1 |-> stakes[1], stake2 |-> stakes[2],
                    order1_id |-> order1_id, order2_id |-> order2_id,
                    success |-> (error = <<>>), error |-> error, timestamp |-> ts],
     calls |-> calls,
     profit |-> calculate_profit(opportunity.side1_price, opportunity.side2_price,
                                 stakes[1], stakes[2]),
     successful |-> IF error = <<>> THEN 1 ELSE 0,
     failed |-> IF error = <<>> THEN 0 ELSE 1]

ExecutionOutcome_success_counted_twice(opportunity, stakes, order1_id, order2_id, error, calls, ts) ==
    [execution |-> [opportunity |-> opportunity, bankroll |-> bankroll,
                    stake1 |-> stakes[1], stake2 |-> stakes[2],
                    order1_id |-> order1_id, order2_id |-> order2_id,
                    success |-> (error = <<>>), error |-> error, timestamp |-> ts],
     calls |-> calls,
     profit |-> IF error = <<>>
                THEN calculate_profit(opportunity.side1_price, opportunity.side2_price,
                                      stakes[1], stakes[2])
                ELSE Zero,
     successful |-> 1,
     failed |-> IF error = <<>> THEN 0 ELSE 1]

\* Lines 293-317: the counters' increments and the execution record;
\* error is <<>> on the success path.
ExecutionOutcome(opportunity, stakes, order1_id, order2_id, error, calls, ts) ==
    [execution |-> [opportunity |-> opportunity, bankroll |-> bankroll,
                    stake1 |-> stakes[1], stake2 |-> stakes[2],
                    order1_id |-> order1_id, order2_id |-> order2_id,
                    success |-> (error = <<>>), error |-> error, timestamp |-> ts],
     calls |-> calls,
     profit |-> IF error = <<>>
                THEN calculate_profit(opportunity.side1_price, opportunity.side2_price,
                                      stakes[1], stakes[2])
                ELSE Zero,
     successful |-> IF error = <<>> THEN 1 ELSE 0,
     failed |-> IF error = <<>> THEN 0 ELSE 1]

\* Lines 284-293, with leg 1 placed (o1) and leg 2 attempted (o2).
AfterLeg2(opportunity, beh, ts, stakes, o1, o2) ==
    IF o2.order_id = <<>>
    THEN ExecutionOutcome(opportunity, stakes, o1.order_id, <<>>, <<"Failed to place order 2">>,
                          cancel_leg1(o2.calls, o1.order_id, beh.cancel), ts)
    ELSE ExecutionOutcome(opportunity, stakes, o1.order_id, o2.order_id, <<>>, o2.calls, ts)

AfterLeg1_no_abort(opportunity, beh, ts, stakes, o1) ==
    AfterLeg2(opportunity, beh, ts, stakes, o1,
              place_order(o1.calls, opportunity.side2_token_id, "BUY", opportunity.side2_price,
                          FDiv(stakes[2], opportunity.side2_price), beh.leg2))

\* Lines 273-282, with leg 1 attempted (o1).
AfterLeg1(opportunity, beh, ts, stakes, o1) ==
    IF o1.order_id = <<>>
    THEN ExecutionOutcome(opportunity, stakes, <<>>, <<>>, <<"Failed to place order 1">>,
                          o1.calls, ts)
    ELSE AfterLeg2(opportunity, beh, ts, stakes, o1,
                   place_order(o1.calls, opportunity.side2_token_id, "BUY",
                               opportunity.side2_price,
                               FDiv(stakes[2], opportunity.side2_price), beh.leg2))

\* Lines 264-271, with the stakes of lines 240-244.
PlaceLegs(calls, opportunity, beh, ts, stakes) ==
    AfterLeg1(opportunity, beh, ts, stakes,
              place_order(calls, opportunity.side1_token_id, "BUY", opportunity.side1_price,
                          FDiv(stakes[1], opportunity.side1_price), beh.leg1))

\* ArbitrageExecutor.execute_arbitrage for an opportunity on which it does not
\* raise: the execution record, the client calls after it and the counters' increments.
execute_arbitrage(calls, opportunity, beh, ts) ==
    PlaceLegs(calls, opportunity, beh, ts,
              calculate_stakes(opportunity.side1_price, opportunity.side2_price, bankroll))

----------------------------------------------------------------------------
(* Dictionaries and the state after construction.                          *)

EmptyMap ==
    [x \in {} |-> x]

\* d[k] = v on a Python dict.
Put(d, k, v) ==
    [x \in DOMAIN d \cup {k} |-> IF x = k THEN v ELSE d[x]]

InitMonitor ==
    /\ subscribed_markets = <<>>
    /\ orderbook_data = EmptyMap
    /\ ath_records = EmptyMap
    /\ atl_records = EmptyMap
    /\ current_snapshots = <<>>
    /\ token_to_market = EmptyMap
    /\ market_to_token = EmptyMap
    /\ best_matches = <<>>
    /\ total_records = <<>>
    /\ last_totals = EmptyMap
    /\ running = FALSE
    /\ feeds = [pc \in {"top", "connect", "enum", "listen", "recv", "exec", "error", "after",
                           "sleep"}
                   |-> 0]
    /\ sleeping = 0
    /\ cursors = <<>>
    /\ blocked = <<>>
    /\ now = 0
    /\ observed = EmptyMap
    /\ arrivals = EmptyMap
    /\ last_frame = <<>>
    /\ poll = [pc |-> "idle", tasks |-> {}, fetched |-> {}]

\* ArbitrageExecutor.__init__: the client is None when ClobClient cannot be constructed.
InitExecutor(clients, bankrolls, min_profits, autos) ==
    /\ client \in clients
    /\ bankroll \in bankrolls
    /\ min_profit_percent \in min_profits
    /\ auto_execute \in autos
    /\ executions = <<>>
    /\ total_profit = Zero
    /\ successful_trades = 0
    /\ failed_trades = 0
    /\ client_calls = <<>>
    /\ last_call = [ended |-> "none", execution |-> <<>>]

NoCalc ==
    [fn |-> "none", price1 |-> Zero, price2 |-> Zero, price3 |-> Zero, bank |-> Zero,
     total |-> Zero, raised |-> FALSE, out |-> <<>>]

----------------------------------------------------------------------------
(* The pure functions applied to drawn inputs.                             *)

InitCalc ==
    /\ InitMonitor
    /\ arbitrage_executor = FALSE
    /\ InitExecutor({"ClobClient"}, {Rat(100, 1)}, MinProfits, BOOLEAN)
    /\ \E p1 \in Prices, p2 \in Prices, p3 \in Prices, b \in Bankrolls, t \in Totals :
          calc = [NoCalc EXCEPT !.price1 = p1, !.price2 = p2, !.price3 = p3,
                                !.bank = b, !.total = t]

CalcStakes ==
    /\ calc.fn = "none"
    /\ calc' = IF calculate_stakes_raises(calc.price1, calc.price2, calc.bank)
               THEN [calc EXCEPT !.fn = "calculate_stakes", !.raised = TRUE]
               ELSE [calc EXCEPT !.fn = "calculate_stakes",
                                 !.out = calculate_stakes(calc.price1, calc.price2, calc.bank)]
    /\ UNCHANGED <<monitor_vars, config_vars, executor_vars>>

CalcStakes3way ==
    /\ calc.fn = "none"
    /\ calc' = IF calculate_stakes_3way_raises(calc.price1, calc.price2, calc.price3, calc.bank)
               THEN [calc EXCEPT !.fn = "calculate_stakes_3way", !.raised = TRUE]
               ELSE [calc EXCEPT !.fn = "calculate_stakes_3way",
                                 !.out = calculate_stakes_3way(calc.price1, calc.price2,
                                                               calc.price3, calc.bank)]
    /\ UNCHANGED <<monitor_vars, config_vars, executor_vars>>

CalcShouldExecute ==
    /\ calc.fn = "none"
    /\ calc' = IF should_execute_raises(auto_execute, min_profit_percent, calc.total)
               THEN [calc EXCEPT !.fn = "should_execute", !.raised = TRUE]
               ELSE [calc EXCEPT !.fn = "should_execute",
                                 !.out = <<should_execute(auto_execute, min_profit_percent,
                                                          calc.total)>>]
    /\ UNCHANGED <<monitor_vars, config_vars, executor_vars>>

NextCalc ==
    \/ CalcStakes
    \/ CalcStakes3way
    \/ CalcShouldExecute

SpecCalc ==
    InitCalc /\ [][NextCalc]_vars

----------------------------------------------------------------------------
(* The executor driven directly by a caller.                               *)

ExecPrices ==
    {P(0), P(30), P(60)}

\* The executor's bookkeeping after execute_arbitrage returned r.
Returned(r) ==
    /\ executions' = Append(executions, r.execution)
    /\ total_profit' = FAdd(total_profit, r.profit)
    /\ successful_trades' = successful_trades + r.successful
    /\ failed_trades' = failed_trades + r.failed
    /\ client_calls' = r.calls
    /\ last_call' = [ended |-> "returned", execution |-> <<r.execution>>]

\* ArbitrageExecutor.execute_arbitrage(opportunity), called with the trading
\* client behaving as beh: it raises, or it returns the execution it appended.
ExecutorCall(opportunity, beh) ==
    IF execute_arbitrage_raises(opportunity)
    THEN /\ last_call' = [ended |-> "raised", execution |-> <<>>]
         /\ UNCHANGED <<executions, total_profit, successful_trades, failed_trades,
                        client_calls>>
    ELSE Returned(execute_arbitrage(client_calls, opportunity, beh, now))

InitExec ==
    /\ InitMonitor
    /\ arbitrage_executor = FALSE
    /\ InitExecutor({"ClobClient", "None"}, {Rat(0, 1), Rat(100, 1)}, {Rat(1, 1)}, {TRUE})
    /\ calc = NoCalc

DirectCall ==
    /\ Len(executions) < MaxExecutions
    /\ \E p1 \in ExecPrices, p2 \in ExecPrices, beh \in Behaviours :
          ExecutorCall([event_title |-> <<"GameA">>, market_type |-> "Moneyline",
                        side1_token_id |-> "t1", side1_name |-> <<"Yes">>, side1_price |-> p1,
                        side2_token_id |-> "t2", side2_name |-> <<"No">>, side2_price |-> p2,
                        total |-> FAdd(p1, p2), profit_percent |-> Zero, timestamp |-> now],
                       beh)
    /\ UNCHANGED <<monitor_vars, config_vars, calc>>

NextExec ==
    DirectCall

SpecExec ==
    InitExec /\ [][NextExec]_vars

----------------------------------------------------------------------------
(* The catalogue of events a caller can subscribe to (SportMatch.markets)  *)
(* and the frames the feed can deliver.                                    *)

SEP == "SEP"

EventIds ==
    {"e1", "e2"}

\* SportMatch.markets of an event, with clobTokenIds and outcomes already
\* parsed from their JSON text.
Markets(event_id) ==
    IF event_id = "e1"
    THEN << [question |-> <<"GameA">>, clobTokenIds |-> <<"t1", "t2">>,
             outcomes |-> <<"Yes", "No">>] >>
    ELSE IF event_id = "e2"
    THEN << [question |-> <<"GameB", "Spread">>, clobTokenIds |-> <<"t3", "t4", "t5">>,
             outcomes |-> <<"Home", "Draw", "Away">>] >>
    ELSE << [question |-> <<"GameA">>, clobTokenIds |-> <<"t6", "t7">>,
             outcomes |-> <<"Yes", "No">>] >>

\* Instrument ids a frame can carry: the catalogue's tokens.
Tokens ==
    {"t1", "t2", "t3", "t4", "t5"}

Level(price, size) ==
    [price |-> price, size |-> size]

\* Order books (bids, asks) a frame can carry; the lists are not always sorted.
Books ==
    { [bids |-> <<Level(P(30), 10)>>,                   asks |-> <<Level(P(40), 10)>>],
      [bids |-> <<Level(P(20), 5), Level(P(35), 5)>>,   asks |-> <<Level(P(42), 5), Level(P(38), 7)>>],
      [bids |-> <<Level(P(30), 20)>>,                   asks |-> <<Level(P(60), 20)>>],
      [bids |-> <<Level(P(30), 10)>>,                   asks |-> <<Level(P(0), 10)>>],
      [bids |-> <<Level(P(30), 10)>>,                   asks |-> <<>>] }

----------------------------------------------------------------------------
(* The Registry, built in connect_websocket (lines 274-294).               *)

OptionName(idx) ==
    IF idx = 1 THEN "Option 1" ELSE IF idx = 2 THEN "Option 2" ELSE "Option n"

\* f"{market.get('question', 'Unknown')} - {outcome_name}"
MarketName(market, idx) ==
    LET outcome_name == IF idx <= Len(market.outcomes) THEN market.outcomes[idx]
                        ELSE OptionName(idx)
    IN  market.question \o <<SEP>> \o <<outcome_name>>

RECURSIVE MarketPairs(_, _)
\* The (token_id, market_name) pairs of one market, in list order.
MarketPairs(market, idx) ==
    IF idx > Len(market.clobTokenIds) THEN <<>>
    ELSE IF market.clobTokenIds[idx] = "" THEN MarketPairs(market, idx + 1)
    ELSE <<[token_id |-> market.clobTokenIds[idx], market_name |-> MarketName(market, idx)]>>
         \o MarketPairs(market, idx + 1)

RECURSIVE EventPairs(_, _)
EventPairs(markets, i) ==
    IF i > Len(markets) THEN <<>>
    ELSE MarketPairs(markets[i], 1) \o EventPairs(markets, i + 1)

RECURSIVE RegistryPairs(_, _)
\* The pairs of all subscribed events, in the order connect_websocket visits them.
RegistryPairs(subscribed, i) ==
    IF i > Len(subscribed) THEN <<>>
    ELSE EventPairs(Markets(subscribed[i]), 1) \o RegistryPairs(subscribed, i + 1)

RECURSIVE BuildTokenToMarket(_, _, _)
BuildTokenToMarket(map, pairs, i) ==
    IF i > Len(pairs) THEN map
    ELSE BuildTokenToMarket(Put(map, pairs[i].token_id, pairs[i].market_name), pairs, i + 1)

RECURSIVE BuildMarketToToken(_, _, _)
BuildMarketToToken(map, pairs, i) ==
    IF i > Len(pairs) THEN map
    ELSE BuildMarketToToken(Put(map, pairs[i].market_name, pairs[i].token_id), pairs, i + 1)

----------------------------------------------------------------------------
(* The State Store: snapshots, history and extremes.                       *)

\* The capacity of a history: MAX_ORDERBOOK_HISTORY is 1000 in config.py; the
\* model bounds it so that a history fills up and evicts within the clock's bound.
MAX_ORDERBOOK_HISTORY == 2

Snapshot(ts, market_id, market_name, best_bid, best_ask, bid_size, ask_size) ==
    [timestamp |-> ts, market_id |-> market_id, market_name |-> market_name,
     best_bid |-> best_bid, best_ask |-> best_ask, bid_size |-> bid_size,
     ask_size |-> ask_size, spread |-> FSub(best_ask, best_bid),
     mid_price |-> FDiv(FAdd(best_bid, best_ask), Rat(2, 1))]

\* min(asks, key=price): the first entry of least price.
MinAsk(asks) ==
    asks[CHOOSE i \in 1..Len(asks) :
            /\ \A j \in 1..Len(asks) : ~FLt(asks[j].price, asks[i].price)
            /\ \A j \in 1..(i - 1) : asks[j].price # asks[i].price]

\* self.current_snapshots[asset_id] = snapshot: a key already present keeps its place.
StoreCurrent(snapshots, snapshot) ==
    IF \E i \in 1..Len(snapshots) : snapshots[i].market_id = snapshot.market_id
    THEN [i \in 1..Len(snapshots) |->
            IF snapshots[i].market_id = snapshot.market_id THEN snapshot ELSE snapshots[i]]
    ELSE Append(snapshots, snapshot)

HistoryOf(data, token) ==
    IF token \in DOMAIN data THEN data[token] ELSE <<>>

\* self.orderbook_data[asset_id].append(snapshot) on a deque(maxlen=MAX_ORDERBOOK_HISTORY)
AppendHistory_unbounded(data, token, snapshot) ==
    Put(data, token, Append(HistoryOf(data, token), snapshot))

AppendHistory(data, token, snapshot) ==
    LET h == Append(HistoryOf(data, token), snapshot)
    IN  Put(data, token, IF Len(h) > MAX_ORDERBOOK_HISTORY THEN Tail(h) ELSE h)

ExtremeRecord(market_id, market_name, price, size, ts, side) ==
    [market_id |-> market_id, market_name |-> market_name, price |-> price,
     size |-> size, timestamp |-> ts, side |-> side]

check_ath_latest(records, market_id, market_name, price, size, side, ts) ==
    Put(records, <<market_id, side>>, ExtremeRecord(market_id, market_name, price, size, ts, side))

check_ath_or_equal(records, market_id, market_name, price, size, side, ts) ==
    LET key == <<market_id, side>>
    IN  IF key \notin DOMAIN records \/ ~FLt(price, records[key].price)
        THEN Put(records, key, ExtremeRecord(market_id, market_name, price, size, ts, side))
        ELSE records

check_ath(records, market_id, market_name, price, size, side, ts) ==
    LET key == <<market_id, side>>
    IN  IF key \notin DOMAIN records \/ FLt(records[key].price, price)
        THEN Put(records, key, ExtremeRecord(market_id, market_name, price, size, ts, side))
        ELSE records

check_atl_first_only(records, market_id, market_name, price, size, side, ts) ==
    LET key == <<market_id, side>>
    IN  IF key \notin DOMAIN records
        THEN Put(records, key, ExtremeRecord(market_id, market_name, price, size, ts, side))
        ELSE records

check_atl(records, market_id, market_name, price, size, side, ts) ==
    LET key == <<market_id, side>>
    IN  IF key \notin DOMAIN records \/ FLt(price, records[key].price)
        THEN Put(records, key, ExtremeRecord(market_id, market_name, price, size, ts, side))
        ELSE records

\* The prices ingested so far for a key (history variable, not program state).
Observe(obs, key, price) ==
    Put(obs, key, (IF key \in DOMAIN obs THEN obs[key] ELSE {}) \cup {price})

\* Every snapshot ingested so far for a token (history variable, not program state).
Arrive(arr, token, snapshot) ==
    Put(arr, token, (IF token \in DOMAIN arr THEN arr[token] ELSE <<>>) \o <<snapshot>>)

----------------------------------------------------------------------------
(* The Opportunity Detector: check_best_matches and execute_arbitrage of   *)
(* OrderbookMonitor.                                                       *)

RECURSIVE Split(_, _, _)
\* market_name.split(' - ')
Split(name, i, part) ==
    IF i > Len(name) THEN <<part>>
    ELSE IF name[i] = SEP THEN <<part>> \o Split(name, i + 1, <<>>)
    ELSE Split(name, i + 1, Append(part, name[i]))

Parts(name) ==
    Split(name, 1, <<>>)

Contains(name, atom) ==
    \E i \in 1..Len(name) : name[i] = atom

MarketType(event_name) ==
    IF Contains(event_name, "Spread") THEN "Spread"
    ELSE IF Contains(event_name, "O/U") \/ Contains(event_name, "Over/Under") THEN "O/U"
    ELSE "Moneyline"

\* The snapshots check_best_matches files under event_name, in dict order.
Members(snapshots, event_name) ==
    SelectSeq(snapshots, LAMBDA sn : /\ Len(Parts(sn.market_name)) >= 2
                                     /\ Parts(sn.market_name)[1] = event_name)

RECURSIVE GroupKeys(_, _, _)
\* The keys of event_markets in insertion order.
GroupKeys(snapshots, i, keys) ==
    IF i > Len(snapshots) THEN keys
    ELSE LET parts == Parts(snapshots[i].market_name)
         IN  IF Len(parts) < 2 \/ (\E k \in 1..Len(keys) : keys[k] = parts[1])
             THEN GroupKeys(snapshots, i + 1, keys)
             ELSE GroupKeys(snapshots, i + 1, Append(keys, parts[1]))

\* What one scan has done so far; aborted is set once an exception has left the loop.
ScanState ==
    [total_records |-> total_records, last_totals |-> last_totals,
     best_matches |-> best_matches, executions |-> executions,
     total_profit |-> total_profit, successful_trades |-> successful_trades,
     failed_trades |-> failed_trades, client_calls |-> client_calls,
     last_call |-> last_call, nexec |-> 0, aborted |-> FALSE]

\* The scan state after ArbitrageExecutor.execute_arbitrage returned r.
Executed(st, r) ==
    [st EXCEPT !.nexec = @ + 1,
               !.executions = Append(@, r.execution),
               !.total_profit = FAdd(@, r.profit),
               !.successful_trades = @ + r.successful,
               !.failed_trades = @ + r.failed,
               !.client_calls = r.calls,
               !.last_call = [ended |-> "returned", execution |-> <<r.execution>>]]

\* Lines 697-707: the executor is called; what it raises is caught and logged.
CallExecutor(st, opportunity, behs, ts) ==
    IF execute_arbitrage_raises(opportunity)
    THEN [st EXCEPT !.nexec = @ + 1,
                    !.last_call = [ended |-> "raised", execution |-> <<>>]]
    ELSE Executed(st, execute_arbitrage(st.client_calls, opportunity, behs[st.nexec + 1], ts))

\* OrderbookMonitor.execute_arbitrage (lines 665-707)
monitor_execute_arbitrage(st, event_name, market_type, side1, side2, total, behs, ts) ==
    IF \/ side1.snapshot.market_name \notin DOMAIN market_to_token
       \/ side2.snapshot.market_name \notin DOMAIN market_to_token
    THEN st
    ELSE CallExecutor(st,
                      [event_title |-> event_name, market_type |-> market_type,
                       side1_token_id |-> market_to_token[side1.snapshot.market_name],
                       side1_name |-> side1.outcome,
                       side1_price |-> side1.snapshot.best_ask,
                       side2_token_id |-> market_to_token[side2.snapshot.market_name],
                       side2_name |-> side2.outcome,
                       side2_price |-> side2.snapshot.best_ask,
                       total |-> total,
                       profit_percent |-> FMul(FDiv(FSub(Rat(1, 1), total), total), Rat(100, 1)),
                       timestamp |-> ts],
                      behs, ts)

TotalRecord(pair_key, event_name, market_type, side1, side2, total, ts) ==
    [event_id |-> pair_key, event_title |-> event_name, market_type |-> market_type,
     side1_name |-> side1.outcome, side1_price |-> side1.snapshot.best_ask,
     side2_name |-> side2.outcome, side2_price |-> side2.snapshot.best_ask,
     total |-> total, timestamp |-> ts, is_best |-> FLt(total, Rat(1, 1))]

BestMatch(pair_key, event_name, market_type, side1, side2, total, ts) ==
    [event_id |-> pair_key, event_title |-> event_name, market_type |-> market_type,
     side1_name |-> side1.outcome, side1_price |-> side1.snapshot.best_ask,
     side2_name |-> side2.outcome, side2_price |-> side2.snapshot.best_ask,
     total |-> total, timestamp |-> ts]

\* Lines 648-660, with the best match appended (st).
AutoExecute(st, event_name, market_type, side1, side2, total, behs, ts) ==
    IF ~arbitrage_executor THEN st
    ELSE IF should_execute_raises(auto_execute, min_profit_percent, total)
         THEN [st EXCEPT !.aborted = TRUE]
    ELSE IF ~should_execute(auto_execute, min_profit_percent, total) THEN st
    ELSE monitor_execute_arbitrage(st, event_name, market_type, side1, side2, total, behs, ts)

CheckBest_or_equal(st, pair_key, event_name, market_type, side1, side2, total, behs, ts) ==
    IF FLt(Rat(1, 1), total) THEN st
    ELSE AutoExecute([st EXCEPT !.best_matches =
                         Append(@, BestMatch(pair_key, event_name, market_type, side1, side2,
                                             total, ts))],
                     event_name, market_type, side1, side2, total, behs, ts)

\* Lines 632-660, with the total recorded (st).
CheckBest(st, pair_key, event_name, market_type, side1, side2, total, behs, ts) ==
    IF ~FLt(total, Rat(1, 1)) THEN st
    ELSE AutoExecute([st EXCEPT !.best_matches =
                         Append(@, BestMatch(pair_key, event_name, market_type, side1, side2,
                                             total, ts))],
                     event_name, market_type, side1, side2, total, behs, ts)

CheckPair_any_change(st, pair_key, event_name, market_type, side1, side2, total, behs, ts) ==
    IF \/ pair_key \notin DOMAIN st.last_totals
       \/ st.last_totals[pair_key] # total
    THEN CheckBest([st EXCEPT !.total_records =
                       Append(@, TotalRecord(pair_key, event_name, market_type, side1, side2,
                                             total, ts)),
                              !.last_totals = Put(@, pair_key, total)],
                   pair_key, event_name, market_type, side1, side2, total, behs, ts)
    ELSE st

CheckPair_unchanged_too(st, pair_key, event_name, market_type, side1, side2, total, behs, ts) ==
    IF \/ pair_key \notin DOMAIN st.last_totals
       \/ FLt(Rat(1, 1000), FAbs(FSub(st.last_totals[pair_key], total)))
    THEN CheckBest([st EXCEPT !.total_records =
                       Append(@, TotalRecord(pair_key, event_name, market_type, side1, side2,
                                             total, ts)),
                              !.last_totals = Put(@, pair_key, total)],
                   pair_key, event_name, market_type, side1, side2, total, behs, ts)
    ELSE CheckBest(st, pair_key, event_name, market_type, side1, side2, total, behs, ts)

\* Lines 609-660 for the pair side1, side2 of a group.
CheckPair(st, pair_key, event_name, market_type, side1, side2, total, behs, ts) ==
    IF \/ pair_key \notin DOMAIN st.last_totals
       \/ FLt(Rat(1, 1000), FAbs(FSub(st.last_totals[pair_key], total)))
    THEN CheckBest([st EXCEPT !.total_records =
                       Append(@, TotalRecord(pair_key, event_name, market_type, side1, side2,
                                             total, ts)),
                              !.last_totals = Put(@, pair_key, total)],
                   pair_key, event_name, market_type, side1, side2, total, behs, ts)
    ELSE st

Side(snapshot) ==
    [snapshot |-> snapshot, outcome |-> Parts(snapshot.market_name)[2]]

ScanGroup_last_two(st, outcomes, event_name, behs, ts) ==
    IF st.aborted \/ Len(outcomes) < 2 THEN st
    ELSE CheckPair(st, <<event_name, MarketType(event_name)>>, event_name,
                   MarketType(event_name), Side(outcomes[Len(outcomes) - 1]),
                   Side(outcomes[Len(outcomes)]),
                   FAdd(outcomes[Len(outcomes) - 1].best_ask, outcomes[Len(outcomes)].best_ask),
                   behs, ts)

\* The body of check_best_matches' loop for one group (lines 603-660).
ScanGroup(st, outcomes, event_name, behs, ts) ==
    IF st.aborted \/ Len(outcomes) # 2 THEN st
    ELSE CheckPair(st, <<event_name, MarketType(event_name)>>, event_name,
                   MarketType(event_name), Side(outcomes[1]), Side(outcomes[2]),
                   FAdd(outcomes[1].best_ask, outcomes[2].best_ask), behs, ts)

RECURSIVE ScanGroups(_, _, _, _, _, _)
ScanGroups(st, snapshots, keys, i, behs, ts) ==
    IF i > Len(keys) THEN st
    ELSE ScanGroups(ScanGroup(st, Members(snapshots, keys[i]), keys[i], behs, ts),
                    snapshots, keys, i + 1, behs, ts)

\* check_best_matches (lines 574-663) over the given current snapshots.
check_best_matches(snapshots, behs, ts) ==
    ScanGroups(ScanState, snapshots, GroupKeys(snapshots, 1, <<>>), 1, behs, ts)

----------------------------------------------------------------------------
(* Ingestion on the streaming path.                                        *)

\* The frames the feed delivers: an order book of an instrument of e1, one of
\* an instrument of another event, or one without asset_id.
Frames ==
    {[asset_id |-> <<t>>, bids |-> b.bids, asks |-> b.asks] : t \in {"t1", "t2"}, b \in Books}
    \cup {[asset_id |-> <<"t3">>, bids |-> <<Level(P(30), 10)>>, asks |-> <<Level(P(40), 10)>>],
          [asset_id |-> <<>>, bids |-> <<Level(P(30), 10)>>, asks |-> <<Level(P(40), 10)>>]}

\* The trading client's behaviour on the k-th execution of one scan.
DefaultBehaviours ==
    [k \in 1..(Cardinality(Tokens)) |-> CHOOSE b \in Behaviours : b.leg1 = "id" /\ b.leg2 = "id"]

\* The Opportunity Detector's and the executor's state after the scan st.
Scanned(st) ==
    /\ total_records' = st.total_records
    /\ last_totals' = st.last_totals
    /\ best_matches' = st.best_matches
    /\ executions' = st.executions
    /\ total_profit' = st.total_profit
    /\ successful_trades' = st.successful_trades
    /\ failed_trades' = st.failed_trades
    /\ client_calls' = st.client_calls
    /\ last_call' = st.last_call

\* Lines 404: the scan on the stored snapshots, the trading client behaving
\* as one of its behaviours on each of the scan's n executions.
ScanAfterStore(snapshots, n, ts) ==
    \E behs \in [1..n -> Behaviours] : Scanned(check_best_matches(snapshots, behs, ts))

\* Lines 393-401: the snapshot is stored and the extremes are updated.
Store(snapshot) ==
    /\ now' = snapshot.timestamp
    /\ orderbook_data' = AppendHistory(orderbook_data, snapshot.market_id, snapshot)
    /\ ath_records' =
          check_ath(check_ath(ath_records, snapshot.market_id, snapshot.market_name,
                              snapshot.best_bid, snapshot.bid_size, "bid", snapshot.timestamp),
                    snapshot.market_id, snapshot.market_name,
                    snapshot.best_ask, snapshot.ask_size, "ask", snapshot.timestamp)
    /\ atl_records' =
          check_atl(check_atl(atl_records, snapshot.market_id, snapshot.market_name,
                              snapshot.best_bid, snapshot.bid_size, "bid", snapshot.timestamp),
                    snapshot.market_id, snapshot.market_name,
                    snapshot.best_ask, snapshot.ask_size, "ask", snapshot.timestamp)
    /\ observed' = Observe(Observe(observed, <<snapshot.market_id, "bid">>, snapshot.best_bid),
                           <<snapshot.market_id, "ask">>, snapshot.best_ask)
    /\ arrivals' = Arrive(arrivals, snapshot.market_id, snapshot)

StoreAndScan(snapshot, snapshots) ==
    /\ Store(snapshot)
    /\ current_snapshots' = snapshots
    /\ ScanAfterStore(snapshots,
                      check_best_matches(snapshots, DefaultBehaviours, snapshot.timestamp).nexec,
                      snapshot.timestamp)

Ingest(snapshot) ==
    StoreAndScan(snapshot, StoreCurrent(current_snapshots, snapshot))

\* Lines 361-391: the snapshot of a frame with bids and asks; the best bid is
\* the first bid listed, the best ask the ask of least price.
BookSnapshot(asset_id, bids, min_ask, ts) ==
    Snapshot(ts, asset_id,
             IF asset_id \in DOMAIN token_to_market THEN token_to_market[asset_id]
             ELSE <<"Unknown">>,
             bids[1].price, min_ask.price, bids[1].size, min_ask.size)

\* A price field that is missing or that float() cannot parse, and such a size field.
NoPrice == [n |-> 0, d |-> 0]

NoSize == -1

\* Lines 369-375 (and 502-509) raise KeyError or ValueError: min() parses the
\* price of every ask; beyond that only the size of the least ask and the
\* price and size of the first bid are parsed.
parse_book_raises(bids, asks) ==
    \/ \E i \in 1..Len(asks) : asks[i].price = NoPrice
    \/ MinAsk(asks).size = NoSize
    \/ bids[1].price = NoPrice
    \/ bids[1].size = NoSize

\* process_book_message (lines 350-415): a frame without asset_id, bids or
\* asks changes nothing, and neither does one whose parsing raises (caught and
\* logged at line 414); any other is stored and scanned on the same call stack.
process_book_message(data) ==
    IF data.asset_id = <<>> \/ data.bids = <<>> \/ data.asks = <<>>
    THEN UNCHANGED <<store_vars, detector_vars, executor_vars>>
    ELSE IF parse_book_raises(data.bids, data.asks)
    THEN UNCHANGED <<store_vars, detector_vars, executor_vars>>
    ELSE /\ now < MaxClock
         /\ last_frame' = <<[bids |-> data.bids, asks |-> data.asks]>>
         /\ Ingest(BookSnapshot(data.asset_id[1], data.bids, MinAsk(data.asks), now + 1))

----------------------------------------------------------------------------
(* Control operations (callers' threads) and the feed loop                 *)
(* (connect_websocket, lines 262-324).                                     *)

\* The number of feed-loop threads that may be alive at once.
MaxThreads == 2

LiveThreads ==
    feeds["top"] + feeds["connect"] + feeds["enum"] + feeds["listen"] + feeds["recv"]
    + feeds["exec"] + feeds["error"] + feeds["after"] + feeds["sleep"]

Move(from, to) ==
    [feeds EXCEPT ![from] = @ - 1, ![to] = @ + 1]

\* subscribe_to_match (lines 248-252)
Subscribe(event_id) ==
    /\ subscribed_markets' = IF \E i \in 1..Len(subscribed_markets) : subscribed_markets[i] = event_id
                             THEN subscribed_markets
                             ELSE Append(subscribed_markets, event_id)
    /\ UNCHANGED <<store_vars, detector_vars, registry_vars, arbitrage_executor, running,
                   feeds, sleeping, cursors, blocked, config_vars, executor_vars, calc, poll>>

\* unsubscribe_from_match (lines 254-260)
Unsubscribe(event_id) ==
    /\ subscribed_markets' = SelectSeq(subscribed_markets, LAMBDA e : e # event_id)
    /\ UNCHANGED <<store_vars, detector_vars, registry_vars, arbitrage_executor, running,
                   feeds, sleeping, cursors, blocked, config_vars, executor_vars, calc, poll>>

\* api_start of web_app.py (and the second half of restart_monitor, whose first
\* half is Stop) and OrderbookMonitor.start: a new thread enters the loop.
Start ==
    /\ ~running
    /\ subscribed_markets # <<>>
    /\ LiveThreads < MaxThreads
    /\ running' = TRUE
    /\ feeds' = [feeds EXCEPT !["top"] = @ + 1]
    /\ sleeping' = sleeping
    /\ blocked' = blocked
    /\ cursors' = cursors
    /\ UNCHANGED <<subscribed_markets, store_vars, detector_vars, registry_vars,
                   arbitrage_executor, config_vars, executor_vars, calc, poll>>

\* stop (lines 719-722)
Stop ==
    /\ running' = FALSE
    /\ UNCHANGED <<subscribed_markets, store_vars, detector_vars, registry_vars,
                   arbitrage_executor, feeds, sleeping, cursors, blocked, config_vars, executor_vars, calc, poll>>

\* while self.running (line 266) is false: the loop, and with it the thread, ends.
FeedExit ==
    /\ feeds["top"] > 0
    /\ ~running
    /\ feeds' = [feeds EXCEPT !["top"] = @ - 1]
    /\ sleeping' = sleeping
    /\ blocked' = blocked
    /\ cursors' = cursors
    /\ UNCHANGED <<subscribed_markets, store_vars, detector_vars, registry_vars,
                   arbitrage_executor, running, config_vars, executor_vars, calc, poll>>

\* while self.running (line 266) is true: the thread calls websockets.connect
\* (line 270), a new connection attempt.
FeedEnter ==
    /\ feeds["top"] > 0
    /\ running
    /\ feeds' = Move("top", "connect")
    /\ sleeping' = sleeping
    /\ blocked' = blocked
    /\ cursors' = cursors
    /\ UNCHANGED <<subscribed_markets, store_vars, detector_vars, registry_vars,
                   arbitrage_executor, running, config_vars, executor_vars, calc, poll>>

\* Lines 278-294 for the markets of one event: each of its instruments is
\* written into the Registry; no entry is removed.
WriteRegistry(pairs) ==
    /\ token_to_market' = BuildTokenToMarket(token_to_market, pairs, 1)
    /\ market_to_token' = BuildMarketToToken(market_to_token, pairs, 1)

\* The iterators but the i-th.
DropCursor(i) ==
    SubSeq(cursors, 1, i - 1) \o SubSeq(cursors, i + 1, Len(cursors))

\* The connection is made (line 270) and the loop of line 276 creates its
\* iterator over subscribed_markets.items(): it remembers the dict's size.
FeedConnect ==
    /\ feeds["connect"] > 0
    /\ feeds' = Move("connect", "enum")
    /\ cursors' = Append(cursors, [size |-> Len(subscribed_markets), idx |-> 0])
    /\ sleeping' = sleeping
    /\ blocked' = blocked
    /\ UNCHANGED <<subscribed_markets, store_vars, detector_vars, registry_vars,
                   arbitrage_executor, running, config_vars, executor_vars, calc, poll>>

\* websockets.connect raises (line 318).
FeedConnectFail ==
    /\ feeds["connect"] > 0
    /\ feeds' = Move("connect", "after")
    /\ sleeping' = sleeping
    /\ blocked' = blocked
    /\ cursors' = cursors
    /\ UNCHANGED <<subscribed_markets, store_vars, detector_vars, registry_vars,
                   arbitrage_executor, running, config_vars, executor_vars, calc, poll>>

\* One turn of the loop of line 276: the iterator yields the next event and
\* the instruments of its markets are written into the Registry (278-294).
FeedEnumerate(i) ==
    /\ i <= Len(cursors)
    /\ cursors[i].size = Len(subscribed_markets)
    /\ cursors[i].idx < Len(subscribed_markets)
    /\ WriteRegistry(EventPairs(Markets(subscribed_markets[cursors[i].idx + 1]), 1))
    /\ cursors' = [cursors EXCEPT ![i].idx = @ + 1]
    /\ sleeping' = sleeping
    /\ blocked' = blocked
    /\ UNCHANGED <<subscribed_markets, store_vars, detector_vars, arbitrage_executor,
                   running, feeds, config_vars, executor_vars, calc, poll>>

\* The dict has another size than when the iterator was created: the
\* iterator raises RuntimeError (dictionary changed size during iteration),
\* caught at line 318.
FeedEnumerateFail(i) ==
    /\ i <= Len(cursors)
    /\ cursors[i].size # Len(subscribed_markets)
    /\ cursors' = DropCursor(i)
    /\ feeds' = Move("enum", "after")
    /\ sleeping' = sleeping
    /\ blocked' = blocked
    /\ UNCHANGED <<subscribed_markets, store_vars, detector_vars, registry_vars,
                   arbitrage_executor, running, config_vars, executor_vars, calc, poll>>

\* The iterator is exhausted and the subscription is sent (lines 296-303).
FeedSubscribed(i) ==
    /\ i <= Len(cursors)
    /\ cursors[i].size = Len(subscribed_markets)
    /\ cursors[i].idx >= Len(subscribed_markets)
    /\ cursors' = DropCursor(i)
    /\ feeds' = Move("enum", "listen")
    /\ sleeping' = sleeping
    /\ blocked' = blocked
    /\ UNCHANGED <<subscribed_markets, store_vars, detector_vars, registry_vars,
                   arbitrage_executor, running, config_vars, executor_vars, calc, poll>>

\* The iterator is exhausted and websocket.send raises (line 302): a
\* connection error caught at line 318.
FeedSendFail(i) ==
    /\ i <= Len(cursors)
    /\ cursors[i].size = Len(subscribed_markets)
    /\ cursors[i].idx >= Len(subscribed_markets)
    /\ cursors' = DropCursor(i)
    /\ feeds' = Move("enum", "after")
    /\ sleeping' = sleeping
    /\ blocked' = blocked
    /\ UNCHANGED <<subscribed_markets, store_vars, detector_vars, registry_vars,
                   arbitrage_executor, running, config_vars, executor_vars, calc, poll>>

\* A thread that holds an iterator takes its next step.
FeedRegister(i) ==
    \/ FeedEnumerate(i)
    \/ FeedEnumerateFail(i)
    \/ FeedSubscribed(i)
    \/ FeedSendFail(i)

FeedListen_ignores_flag ==
    /\ feeds["listen"] > 0
    /\ feeds' = Move("listen", "recv")
    /\ sleeping' = sleeping
    /\ blocked' = blocked
    /\ cursors' = cursors
    /\ UNCHANGED <<subscribed_markets, store_vars, detector_vars, registry_vars,
                   arbitrage_executor, running, config_vars, executor_vars, calc, poll>>

\* while self.running (line 306): receive with a timeout, or leave the connection.
FeedListen ==
    /\ feeds["listen"] > 0
    /\ feeds' = IF running THEN Move("listen", "recv") ELSE Move("listen", "after")
    /\ sleeping' = sleeping
    /\ blocked' = blocked
    /\ cursors' = cursors
    /\ UNCHANGED <<subscribed_markets, store_vars, detector_vars, registry_vars,
                   arbitrage_executor, running, config_vars, executor_vars, calc, poll>>

\* asyncio.TimeoutError (line 310)
FeedTimeout ==
    /\ feeds["recv"] > 0
    /\ feeds' = Move("recv", "listen")
    /\ sleeping' = sleeping
    /\ blocked' = blocked
    /\ cursors' = cursors
    /\ UNCHANGED <<subscribed_markets, store_vars, detector_vars, registry_vars,
                   arbitrage_executor, running, config_vars, executor_vars, calc, poll>>

\* ConnectionClosed (line 312)
FeedClosed ==
    /\ feeds["recv"] > 0
    /\ feeds' = Move("recv", "after")
    /\ sleeping' = sleeping
    /\ blocked' = blocked
    /\ cursors' = cursors
    /\ UNCHANGED <<subscribed_markets, store_vars, detector_vars, registry_vars,
                   arbitrage_executor, running, config_vars, executor_vars, calc, poll>>

\* A frame arrives that json.loads cannot parse (line 309): the exception is
\* caught by the handler of line 315.
FeedUnparsable ==
    /\ feeds["recv"] > 0
    /\ feeds' = Move("recv", "error")
    /\ sleeping' = sleeping
    /\ blocked' = blocked
    /\ cursors' = cursors
    /\ UNCHANGED <<subscribed_markets, store_vars, detector_vars, registry_vars,
                   arbitrage_executor, running, config_vars, executor_vars, calc, poll>>

\* The handler of lines 315-316 logs the error; the receive loop goes on.
FeedLogged ==
    /\ feeds["error"] > 0
    /\ feeds' = Move("error", "listen")
    /\ sleeping' = sleeping
    /\ blocked' = blocked
    /\ cursors' = cursors
    /\ UNCHANGED <<subscribed_markets, store_vars, detector_vars, registry_vars,
                   arbitrage_executor, running, config_vars, executor_vars, calc, poll>>

\* A frame arrives and process_websocket_message handles it (lines 308-309, 326-348).
FeedMessage(data) ==
    /\ feeds["recv"] > 0
    /\ process_book_message(data)
    /\ feeds' = Move("recv", "listen")
    /\ sleeping' = sleeping
    /\ blocked' = blocked
    /\ cursors' = cursors
    /\ UNCHANGED <<subscribed_markets, registry_vars, arbitrage_executor, running,
                   config_vars, calc, poll>>

\* The scan st as it stands when a group's evaluation calls the executor: r is
\* the scan after that group, and the executor has not acted yet.
BeforeCall(st, r) ==
    [r EXCEPT !.executions = st.executions,
              !.total_profit = st.total_profit,
              !.successful_trades = st.successful_trades,
              !.failed_trades = st.failed_trades,
              !.client_calls = st.client_calls,
              !.last_call = st.last_call,
              !.nexec = st.nexec]

\* check_best_matches from its i-th group up to the first call of
\* ArbitrageExecutor.execute_arbitrage that reaches the trading client (lines
\* 603-698): the scan so far and, if there is such a call, the opportunity
\* passed with what the loop still holds (its groups, built at lines 580-600).
RECURSIVE ScanToCall(_, _, _, _, _)
RECURSIVE ScanToCallIn(_, _, _, _, _, _)
ScanToCallIn(st, r, snapshots, keys, i, ts) ==
    IF r.nexec > st.nexec /\ r.last_call.ended = "returned"
    THEN [st |-> BeforeCall(st, r),
          call |-> <<[opportunity |-> r.last_call.execution[1].opportunity,
                      snapshots |-> snapshots, keys |-> keys, i |-> i, ts |-> ts]>>]
    ELSE ScanToCall(r, snapshots, keys, i + 1, ts)

ScanToCall(st, snapshots, keys, i, ts) ==
    IF i > Len(keys) THEN [st |-> st, call |-> <<>>]
    ELSE ScanToCallIn(st, ScanGroup(st, Members(snapshots, keys[i]), keys[i],
                                    DefaultBehaviours, ts),
                      snapshots, keys, i, ts)

\* The thread goes on receiving, or waits in the executor call res.call.
ScanSuspended(res, from, others) ==
    /\ Scanned(res.st)
    /\ blocked' = others \o res.call
    /\ feeds' = IF res.call = <<>> THEN Move(from, "listen")
                ELSE IF from = "exec" THEN feeds
                ELSE Move(from, "exec")

\* Lines 393-404 with the snapshot stored: the scan runs up to its first
\* executor call.
StoreAndScanToCall(snapshot, snapshots) ==
    /\ Store(snapshot)
    /\ current_snapshots' = snapshots
    /\ ScanSuspended(ScanToCall(ScanState, snapshots, GroupKeys(snapshots, 1, <<>>), 1,
                                snapshot.timestamp),
                     "recv", blocked)

\* A frame arrives on a thread beside which other threads run:
\* process_book_message (lines 350-415) as far as the executor call in which
\* the thread blocks (the trading client's HTTP request).
FeedIngest(data) ==
    /\ feeds["recv"] > 0
    /\ IF \/ data.asset_id = <<>> \/ data.bids = <<>> \/ data.asks = <<>>
          \/ parse_book_raises(data.bids, data.asks)
       THEN /\ UNCHANGED <<store_vars, detector_vars, executor_vars>>
            /\ feeds' = Move("recv", "listen")
            /\ blocked' = blocked
       ELSE /\ now < MaxClock
            /\ last_frame' = <<[bids |-> data.bids, asks |-> data.asks]>>
            /\ StoreAndScanToCall(BookSnapshot(data.asset_id[1], data.bids,
                                               MinAsk(data.asks), now + 1),
                                  StoreCurrent(current_snapshots,
                                               BookSnapshot(data.asset_id[1], data.bids,
                                                            MinAsk(data.asks), now + 1)))
    /\ sleeping' = sleeping
    /\ cursors' = cursors
    /\ UNCHANGED <<subscribed_markets, registry_vars, arbitrage_executor, running,
                   config_vars, calc, poll>>

\* The executor calls in progress but the k-th.
DropBlocked(k) ==
    SubSeq(blocked, 1, k - 1) \o SubSeq(blocked, k + 1, Len(blocked))

\* The rest of the scan after the executor returned r to the call b.
ScanResumed(b, r, others) ==
    ScanSuspended(ScanToCall([Executed(ScanState, r) EXCEPT !.nexec = 0],
                             b.snapshots, b.keys, b.i + 1, b.ts),
                  "exec", others)

\* The trading client answered: ArbitrageExecutor.execute_arbitrage appends
\* its result and returns (arbitrage_executor.py 264-317), and the scan goes
\* on with its next group (orderbook_monitor.py 698-706, 603).
FeedExecuted(k, beh) ==
    /\ k <= Len(blocked)
    /\ ScanResumed(blocked[k],
                   execute_arbitrage(client_calls, blocked[k].opportunity, beh, now),
                   DropBlocked(k))
    /\ sleeping' = sleeping
    /\ cursors' = cursors
    /\ UNCHANGED <<subscribed_markets, store_vars, registry_vars, arbitrage_executor,
                   running, config_vars, calc, poll>>

\* The delay between a lost connection and the next attempt (line 264).
reconnect_delay == 5

FeedAfter_no_retry ==
    /\ feeds["after"] > 0
    /\ feeds' = [feeds EXCEPT !["after"] = @ - 1]
    /\ sleeping' = sleeping
    /\ blocked' = blocked
    /\ cursors' = cursors
    /\ UNCHANGED <<subscribed_markets, store_vars, detector_vars, registry_vars,
                   arbitrage_executor, running, config_vars, executor_vars, calc, poll>>

\* if self.running (line 322): sleep reconnect_delay before reconnecting, or
\* go back to the loop test.
FeedAfter ==
    /\ feeds["after"] > 0
    /\ feeds' = IF running THEN Move("after", "sleep") ELSE Move("after", "top")
    /\ sleeping' = IF running THEN reconnect_delay ELSE sleeping
    /\ blocked' = blocked
    /\ cursors' = cursors
    /\ UNCHANGED <<subscribed_markets, store_vars, detector_vars, registry_vars,
                   arbitrage_executor, running, config_vars, executor_vars, calc, poll>>

\* asyncio.sleep(reconnect_delay) returns (line 324).
FeedWake ==
    /\ feeds["sleep"] > 0
    /\ feeds' = Move("sleep", "top")
    /\ sleeping' = IF feeds["sleep"] = 1 THEN 0 ELSE sleeping
    /\ blocked' = blocked
    /\ cursors' = cursors
    /\ UNCHANGED <<subscribed_markets, store_vars, detector_vars, registry_vars,
                   arbitrage_executor, running, config_vars, executor_vars, calc, poll>>

----------------------------------------------------------------------------
(* The polling path: poll_orderbooks (lines 432-489) run by a caller's     *)
(* thread, fetch_single_orderbook and process_orderbook_data.              *)

\* What a fetch returns: an error (a thrown request or a status other than
\* 200), or the JSON body of the book.
Fetches ==
    { [error |-> TRUE,  bids |-> <<>>, asks |-> <<>>],
      [error |-> FALSE, bids |-> <<Level(P(30), 10)>>, asks |-> <<Level(P(40), 10)>>],
      [error |-> FALSE, bids |-> <<Level(P(20), 5), Level(P(35), 5)>>,
                        asks |-> <<Level(P(42), 5), Level(P(38), 7)>>],
      [error |-> FALSE, bids |-> <<Level(P(30), 10)>>, asks |-> <<>>] }

\* Lines 501-525: the snapshot of a fetched book, under the name the cycle computed.
PolledSnapshot(token_id, market_name, bids, min_ask, ts) ==
    Snapshot(ts, token_id, market_name, bids[1].price, min_ask.price, bids[1].size, min_ask.size)

\* Lines 527-535: the snapshot is stored and the extremes are updated; no scan follows.
StoreOnly(snapshot) ==
    /\ Store(snapshot)
    /\ current_snapshots' = StoreCurrent(current_snapshots, snapshot)
    /\ UNCHANGED <<detector_vars, executor_vars>>

\* process_orderbook_data (lines 491-542)
process_orderbook_data(token_id, market_name, data) ==
    IF data.bids = <<>> \/ data.asks = <<>>
    THEN UNCHANGED <<store_vars, detector_vars, executor_vars>>
    ELSE IF parse_book_raises(data.bids, data.asks)
    THEN UNCHANGED <<store_vars, detector_vars, executor_vars>>
    ELSE /\ now < MaxClock
         /\ last_frame' = <<[bids |-> data.bids, asks |-> data.asks]>>
         /\ StoreOnly(PolledSnapshot(token_id, market_name, data.bids, MinAsk(data.asks), now + 1))

\* The (token_id, market_name) pairs a cycle submits (lines 444-463).
PollTasks(pairs) ==
    {pairs[i] : i \in 1..Len(pairs)}

\* A caller's thread enters poll_orderbooks (lines 432-438).
PollStart ==
    /\ poll.pc = "idle"
    /\ poll' = [poll EXCEPT !.pc = "top"]
    /\ UNCHANGED <<subscribed_markets, store_vars, detector_vars, registry_vars,
                   arbitrage_executor, running, feeds, sleeping, cursors, blocked, config_vars, executor_vars, calc>>

\* while self.running (line 440) is false: the pool is shut down and the thread ends.
PollExit ==
    /\ poll.pc = "top"
    /\ ~running
    /\ poll' = [poll EXCEPT !.pc = "ended"]
    /\ UNCHANGED <<subscribed_markets, store_vars, detector_vars, registry_vars,
                   arbitrage_executor, running, feeds, sleeping, cursors, blocked, config_vars, executor_vars, calc>>

\* A cycle begins: one fetch is submitted per instrument of the subscribed events.
PollBegin ==
    /\ poll.pc = "top"
    /\ running
    /\ poll' = [pc |-> "wait", tasks |-> PollTasks(RegistryPairs(subscribed_markets, 1)),
                fetched |-> {}]
    /\ UNCHANGED <<subscribed_markets, store_vars, detector_vars, registry_vars,
                   arbitrage_executor, running, feeds, sleeping, cursors, blocked, config_vars, executor_vars, calc>>

PollFetched_abort_on_error(task, data) ==
    /\ poll.pc = "wait"
    /\ task \in poll.tasks
    /\ IF data.error
       THEN UNCHANGED <<store_vars, detector_vars, executor_vars>>
       ELSE process_orderbook_data(task.token_id, task.market_name, data)
    /\ poll' = [pc |-> IF data.error THEN "ended" ELSE "wait",
                tasks |-> IF data.error THEN {} ELSE poll.tasks \ {task},
                fetched |-> poll.fetched \cup {[token_id |-> task.token_id,
                                                error |-> data.error,
                                                bids |-> data.bids, asks |-> data.asks,
                                                at |-> now']}]
    /\ UNCHANGED <<subscribed_markets, registry_vars, arbitrage_executor, running, feeds,
                   sleeping, cursors, blocked, config_vars, calc>>

\* Lines 466-472 for one completed fetch, in completion order: an error is
\* logged, a body is handed to process_orderbook_data.
PollFetched(task, data) ==
    /\ poll.pc = "wait"
    /\ task \in poll.tasks
    /\ IF data.error
       THEN UNCHANGED <<store_vars, detector_vars, executor_vars>>
       ELSE process_orderbook_data(task.token_id, task.market_name, data)
    /\ poll' = [poll EXCEPT !.tasks = @ \ {task},
                            !.fetched = @ \cup {[token_id |-> task.token_id,
                                                 error |-> data.error,
                                                 bids |-> data.bids, asks |-> data.asks,
                                                 at |-> now']}]
    /\ UNCHANGED <<subscribed_markets, registry_vars, arbitrage_executor, running, feeds,
                   sleeping, cursors, blocked, config_vars, calc>>

\* Every fetch of the cycle has been handled: time.sleep(1) (lines 474-484).
PollSleep ==
    /\ poll.pc = "wait"
    /\ poll.tasks = {}
    /\ poll' = [poll EXCEPT !.pc = "sleep"]
    /\ UNCHANGED <<subscribed_markets, store_vars, detector_vars, registry_vars,
                   arbitrage_executor, running, feeds, sleeping, cursors, blocked, config_vars, executor_vars, calc>>

\* The sleep returns: back to the loop test.
PollWake ==
    /\ poll.pc = "sleep"
    /\ poll' = [poll EXCEPT !.pc = "top"]
    /\ UNCHANGED <<subscribed_markets, store_vars, detector_vars, registry_vars,
                   arbitrage_executor, running, feeds, sleeping, cursors, blocked, config_vars, executor_vars, calc>>

----------------------------------------------------------------------------
(* The monitor with or without an executor attached.                       *)

Init ==
    /\ InitMonitor
    /\ calc = NoCalc
    /\ \/ /\ arbitrage_executor = FALSE
          /\ InitExecutor({"None"}, {Zero}, {Zero}, {FALSE})
       \/ /\ arbitrage_executor = TRUE
          /\ InitExecutor({"ClobClient", "None"}, {Rat(100, 1)}, {Rat(30, 1)}, BOOLEAN)

\* The frames of the whole-program specification: the two instruments of e1
\* with a best ask of 0.38 or 0.
SmallFrames ==
    {f \in Frames : /\ f.asset_id \in {<<"t1">>, <<"t2">>}
                    /\ f.asks # <<>>
                    /\ MinAsk(f.asks).price \in {P(38), P(0)}}

\* Every control operation and every step of the feed loop, over few frames.
Next ==
    \/ \E e \in {"e1"} : Subscribe(e)
    \/ \E e \in {"e1"} : Unsubscribe(e)
    \/ Start
    \/ Stop
    \/ FeedExit
    \/ FeedEnter
    \/ FeedConnect
    \/ FeedConnectFail
    \/ \E i \in 1..MaxThreads : FeedRegister(i)
    \/ FeedListen
    \/ FeedTimeout
    \/ FeedClosed
    \/ FeedUnparsable
    \/ FeedLogged
    \/ \E data \in SmallFrames : FeedMessage(data)
    \/ FeedAfter
    \/ FeedWake

Spec ==
    Init /\ [][Next]_vars

\* The State Store under every frame: the monitor is subscribed, started and
\* connected once and then only receives.  No other operation writes the
\* store, the detector's logs or the executor.
NextStore ==
    \/ \E e \in {"e1"} : Subscribe(e)
    \/ Start
    \/ FeedEnter
    \/ FeedConnect
    \/ \E i \in 1..MaxThreads : FeedEnumerate(i)
    \/ \E i \in 1..MaxThreads : FeedSubscribed(i)
    \/ FeedListen
    \/ \E data \in Frames : FeedMessage(data)

SpecStore ==
    Init /\ [][NextStore]_vars

\* The frames of the detector's specification: best asks of 0.40, 0.4005 and
\* 0 for t1, of 0.40 and 0 for t2 and of 0.30 for the three instruments of e2.
ScanFrames ==
    {[asset_id |-> <<"t1">>, bids |-> <<Level(P(30), 10)>>, asks |-> <<Level(a, 10)>>] :
        a \in {P(40), Rat(4005, 10000), P(0)}}
    \cup {[asset_id |-> <<"t2">>, bids |-> <<Level(P(30), 10)>>, asks |-> <<Level(a, 10)>>] :
             a \in {P(40), P(0)}}
    \cup {[asset_id |-> <<t>>, bids |-> <<Level(P(20), 10)>>, asks |-> <<Level(P(30), 10)>>] :
             t \in {"t3", "t4"}}
    \cup {[asset_id |-> <<"t5">>, bids |-> <<Level(P(20), 10)>>, asks |-> <<Level(P(25), 10)>>]}

\* Both events subscribed, one feed thread, the frames of ScanFrames.
NextScan ==
    \/ \E e \in EventIds : Subscribe(e)
    \/ Start
    \/ FeedEnter
    \/ FeedConnect
    \/ \E i \in 1..MaxThreads : FeedEnumerate(i)
    \/ \E i \in 1..MaxThreads : FeedSubscribed(i)
    \/ FeedListen
    \/ \E data \in ScanFrames : FeedMessage(data)

\* The monitor as web_app.py constructs it (no executor), or with an executor
\* whose client was constructed and whose auto-execution is enabled.
InitScan ==
    /\ InitMonitor
    /\ calc = NoCalc
    /\ \/ /\ arbitrage_executor = FALSE
          /\ InitExecutor({"None"}, {Zero}, {Zero}, {FALSE})
       \/ /\ arbitrage_executor = TRUE
          /\ InitExecutor({"ClobClient"}, {Rat(100, 1)}, {Rat(30, 1)}, {TRUE})

SpecScan ==
    InitScan /\ [][NextScan]_vars

\* The polling loop run beside a started monitor whose feed has not connected.
NextPoll ==
    \/ \E e \in {"e1"} : Subscribe(e)
    \/ Start
    \/ Stop
    \/ PollStart
    \/ PollExit
    \/ PollBegin
    \/ \E task \in PollTasks(RegistryPairs(<<"e1">>, 1)), data \in Fetches :
          PollFetched(task, data)
    \/ PollSleep
    \/ PollWake

SpecPoll ==
    Init /\ [][NextPoll]_vars

\* The frames of the feed loop's specification: a book of t1, a frame
\* without asset_id, a book of t1 whose second bid has no parseable price and a
\* book of t1 whose second ask has none.
FeedFrames ==
    {[asset_id |-> <<"t1">>, bids |-> <<Level(P(30), 10)>>, asks |-> <<Level(P(40), 10)>>],
     [asset_id |-> <<>>, bids |-> <<Level(P(30), 10)>>, asks |-> <<Level(P(40), 10)>>],
     [asset_id |-> <<"t1">>, bids |-> <<Level(P(30), 10), Level(NoPrice, 5)>>,
                             asks |-> <<Level(P(40), 10)>>],
     [asset_id |-> <<"t1">>, bids |-> <<Level(P(30), 10)>>,
                             asks |-> <<Level(P(40), 10), Level(NoPrice, 5)>>]}

\* asyncio.wait_for(websocket.recv(), timeout=1.0) ends (lines 308-316): a
\* frame, an unparsable frame, the timeout or a closed connection.
FeedReceive ==
    \/ FeedTimeout
    \/ FeedClosed
    \/ FeedUnparsable
    \/ \E data \in FeedFrames : FeedMessage(data)

\* The monitor as web_app.py constructs it, with no executor.
InitFeed ==
    /\ InitMonitor
    /\ calc = NoCalc
    /\ arbitrage_executor = FALSE
    /\ InitExecutor({"None"}, {Zero}, {Zero}, {FALSE})

\* The callers' control operations and every step of the feed loop.
NextFeed ==
    \/ \E e \in {"e1"} : Subscribe(e)
    \/ \E e \in {"e1"} : Unsubscribe(e)
    \/ Start
    \/ Stop
    \/ FeedExit
    \/ FeedEnter
    \/ FeedConnect
    \/ FeedConnectFail
    \/ \E i \in 1..MaxThreads : FeedRegister(i)
    \/ FeedListen
    \/ FeedReceive
    \/ FeedLogged
    \/ FeedAfter
    \/ FeedWake

\* A live feed thread keeps running: the loop test is made, a connection
\* attempt succeeds or fails (websockets.connect has an opening timeout), the
\* receive ends after its timeout of one unit at the latest, and the sleep
\* returns.  Nothing is assumed of the callers: Start, Stop, Subscribe and
\* Unsubscribe may never happen.
FeedFairness ==
    /\ WF_vars(FeedExit \/ FeedEnter)
    /\ WF_vars(FeedConnect \/ FeedConnectFail)
    /\ \A i \in 1..MaxThreads : WF_vars(FeedRegister(i))
    /\ WF_vars(FeedListen)
    /\ WF_vars(FeedReceive)
    /\ WF_vars(FeedLogged)
    /\ WF_vars(FeedAfter)
    /\ WF_vars(FeedWake)

SpecFeed ==
    InitFeed /\ [][NextFeed]_vars /\ FeedFairness

\* The frames of the feed when two threads may receive: the two instruments
\* of e1 with a best ask of 0.38 or 0.36.
BlockFrames ==
    {[asset_id |-> <<t>>, bids |-> <<Level(P(30), 10)>>, asks |-> <<Level(a, 10)>>] :
        t \in {"t1", "t2"}, a \in {P(38), P(36)}}

\* How the trading client answers an execution in progress.
BlockBehaviours ==
    {b \in Behaviours : b.cancel = "ok" /\ b.leg1 # "throws" /\ b.leg2 # "throws"}

\* An executor with a client and auto-execution enabled.
InitBlock ==
    /\ InitMonitor
    /\ calc = NoCalc
    /\ arbitrage_executor = TRUE
    /\ InitExecutor({"ClobClient"}, {Rat(100, 1)}, {Rat(30, 1)}, {TRUE})

\* The feed loop with the handler split at the executor call, started,
\* stopped and started again by the callers' threads.
NextBlock ==
    \/ \E e \in {"e1"} : Subscribe(e)
    \/ Start
    \/ Stop
    \/ FeedExit
    \/ FeedEnter
    \/ FeedConnect
    \/ \E i \in 1..MaxThreads : FeedEnumerate(i)
    \/ \E i \in 1..MaxThreads : FeedSubscribed(i)
    \/ FeedListen
    \/ FeedTimeout
    \/ \E data \in BlockFrames : FeedIngest(data)
    \/ \E k \in 1..MaxThreads, beh \in BlockBehaviours : FeedExecuted(k, beh)

SpecBlock ==
    InitBlock /\ [][NextBlock]_vars

\* The frames of the feed when the executor trades: the instruments of e1
\* and the first instrument of e3, the second listing of GameA; t1's best ask
\* moves by 0.0005, t2's to a sum above 1.
TradeFrames ==
    {[asset_id |-> <<"t1">>, bids |-> <<Level(P(30), 10)>>, asks |-> <<Level(a, 10)>>] :
        a \in {P(38), Rat(3805, 10000)}}
    \cup {[asset_id |-> <<"t2">>, bids |-> <<Level(P(30), 10)>>, asks |-> <<Level(a, 10)>>] :
             a \in {P(38), P(70)}}
    \cup {[asset_id |-> <<"t6">>, bids |-> <<Level(P(30), 10)>>, asks |-> <<Level(P(36), 10)>>]}

\* An executor with a client, auto-execution enabled and a minimum profit of
\* 30 or 35 percent.
InitTrade ==
    /\ InitMonitor
    /\ calc = NoCalc
    /\ arbitrage_executor = TRUE
    /\ InitExecutor({"ClobClient"}, {Rat(100, 1)}, {Rat(30, 1), Rat(35, 1)}, {TRUE})

\* e1 and e3 subscribed in either order and e1 unsubscribed, one feed thread,
\* the frames of TradeFrames; every scan may call the executor.
NextTrade ==
    \/ \E e \in {"e1", "e3"} : Subscribe(e)
    \/ \E e \in {"e1"} : Unsubscribe(e)
    \/ Start
    \/ FeedEnter
    \/ FeedConnect
    \/ \E i \in 1..MaxThreads : FeedEnumerate(i)
    \/ \E i \in 1..MaxThreads : FeedSubscribed(i)
    \/ FeedListen
    \/ \E data \in TradeFrames : FeedMessage(data)

SpecTrade ==
    InitTrade /\ [][NextTrade]_vars

----------------------------------------------------------------------------
(* The stake calculator and the gate, under SpecCalc.                      *)

\* C1: for prices p1, p2 > 0 and every bankroll B, calculate_stakes(p1, p2, B)
\* returns (stake1, stake2) with stake1 + stake2 = B and stake1 * p2 = stake2 * p1.
C1_StakesSplitBankroll ==
    (/\ calc.fn = "calculate_stakes"
     /\ FLt(Zero, calc.price1)
     /\ FLt(Zero, calc.price2))
    => /\ ~calc.raised
       /\ Len(calc.out) = 2
       /\ FAdd(calc.out[1], calc.out[2]) = calc.bank
       /\ FMul(calc.out[1], calc.price2) = FMul(calc.out[2], calc.price1)

\* The spec's example: prices 0.49 and 0.48 with a bankroll of 100.
C1_Witness ==
    /\ calc.fn = "calculate_stakes"
    /\ calc.price1 = P(49)
    /\ calc.price2 = P(48)
    /\ calc.bank = Rat(100, 1)
    /\ calc.out = <<Rat(4900, 97), Rat(4800, 97)>>

\* C2: for prices p1, p2, p3 > 0 and every bankroll B, calculate_stakes_3way
\* returns stakes that sum to B and whose payouts stake_i / p_i are all equal,
\* so that payout minus B is the same for each of the three outcomes.
C2_ThreeWayEqualPayout ==
    (/\ calc.fn = "calculate_stakes_3way"
     /\ FLt(Zero, calc.price1)
     /\ FLt(Zero, calc.price2)
     /\ FLt(Zero, calc.price3))
    => /\ ~calc.raised
       /\ Len(calc.out) = 3
       /\ FAdd(FAdd(calc.out[1], calc.out[2]), calc.out[3]) = calc.bank
       /\ FDiv(calc.out[1], calc.price1) = FDiv(calc.out[2], calc.price2)
       /\ FDiv(calc.out[2], calc.price2) = FDiv(calc.out[3], calc.price3)
       /\ FSub(FDiv(calc.out[1], calc.price1), calc.bank)
             = FSub(FDiv(calc.out[3], calc.price3), calc.bank)
       /\ FSub(FDiv(calc.out[2], calc.price2), calc.bank)
             = FSub(FDiv(calc.out[3], calc.price3), calc.bank)

\* Prices 0.35, 0.30 and 0.32 with a bankroll of 11: a common payout of 11 / 0.97.
C2_Witness ==
    /\ calc.fn = "calculate_stakes_3way"
    /\ calc.price1 = P(35)
    /\ calc.price2 = P(30)
    /\ calc.price3 = P(32)
    /\ calc.bank = Rat(11, 1)
    /\ ~calc.raised
    /\ FDiv(calc.out[1], calc.price1) = Rat(1100, 97)

\* C3: should_execute(total) returns, and returns true exactly when auto_execute
\* is enabled, total < 1.0 and (1 - total) / total * 100 >= min_profit_percent
\* (for total >= 0 that is (1 - total) * 100 >= min_profit_percent * total; a
\* profit equal to the minimum is accepted).
C3_GateReturnsTheConjunction ==
    calc.fn = "should_execute"
    => /\ ~calc.raised
       /\ calc.out = << /\ auto_execute
                        /\ FLt(calc.total, Rat(1, 1))
                        /\ FGe(FMul(FSub(Rat(1, 1), calc.total), Rat(100, 1)),
                               FMul(min_profit_percent, calc.total)) >>

\* should_execute(0) with auto_execute enabled: the division of line 176 raises.
C3_Witness ==
    /\ calc.fn = "should_execute"
    /\ auto_execute
    /\ calc.total = Zero
    /\ calc.raised

\* For every total other than 0 the gate returns the conjunction of C3, and it
\* raises only for a total of 0 with auto_execute enabled.
C3_GateForNonzeroTotal ==
    calc.fn = "should_execute"
    => /\ calc.raised <=> (auto_execute /\ calc.total = Zero)
       /\ ~calc.raised
             => calc.out = << /\ auto_execute
                              /\ FLt(calc.total, Rat(1, 1))
                              /\ FGe(FMul(FSub(Rat(1, 1), calc.total), Rat(100, 1)),
                                     FMul(min_profit_percent, calc.total)) >>

\* A profit of exactly the minimum (total 0.80, minimum 25%) is accepted.
C3_TieAccepted ==
    /\ calc.fn = "should_execute"
    /\ auto_execute
    /\ calc.total = Rat(80, 100)
    /\ min_profit_percent = Rat(25, 1)
    /\ calc.out = <<TRUE>>

----------------------------------------------------------------------------
(* The gate on the monitor's path and the State Store, under SpecStore.    *)

\* C4: while auto_execute is disabled, no sequence of ingested snapshots makes
\* the monitor call the trading client or append an execution: the execution
\* log stays empty and both trade counters stay 0.
C4_DisabledNeverTrades ==
    (arbitrage_executor /\ ~auto_execute)
    => /\ executions = <<>>
       /\ client_calls = <<>>
       /\ successful_trades = 0
       /\ failed_trades = 0
       /\ last_call.ended = "none"

\* Auto-execution is disabled, the registry knows both instruments and a best
\* match of total 0.76 (a profit above the minimum) has been recorded.
C4_Witness ==
    /\ arbitrage_executor
    /\ ~auto_execute
    /\ client = "ClobClient"
    /\ \E i \in 1..Len(best_matches) :
          /\ best_matches[i].total = P(76)
          /\ FGe(FMul(FSub(Rat(1, 1), best_matches[i].total), Rat(100, 1)),
                 FMul(min_profit_percent, best_matches[i].total))
    /\ Cardinality(DOMAIN market_to_token) >= 2

C9_TieKeepsRecord ==
    [][\A token \in DOMAIN arrivals' :
          (Len(arrivals'[token]) > Len(HistoryOf(arrivals, token)))
          => /\ \A key \in {<<token, "bid">>} \cap DOMAIN ath_records :
                   /\ ath_records[key].price = arrivals'[token][Len(arrivals'[token])].best_bid
                         => ath_records'[key] = ath_records[key]
                   /\ atl_records[key].price = arrivals'[token][Len(arrivals'[token])].best_bid
                         => atl_records'[key] = atl_records[key]
             /\ \A key \in {<<token, "ask">>} \cap DOMAIN ath_records :
                   /\ ath_records[key].price = arrivals'[token][Len(arrivals'[token])].best_ask
                         => ath_records'[key] = ath_records[key]
                   /\ atl_records[key].price = arrivals'[token][Len(arrivals'[token])].best_ask
                         => atl_records'[key] = atl_records[key]]_vars

\* A bid of 0.30 with size 10 and then a bid of 0.30 with size 20 for one
\* instrument: the ATH and ATL records still carry the first size and timestamp.
C9_Witness ==
    \E token \in DOMAIN arrivals :
       /\ Len(arrivals[token]) = 2
       /\ arrivals[token][1].best_bid = arrivals[token][2].best_bid
       /\ arrivals[token][1].bid_size = 10
       /\ arrivals[token][2].bid_size = 20
       /\ ath_records[<<token, "bid">>].size = 10
       /\ ath_records[<<token, "bid">>].timestamp = arrivals[token][1].timestamp
       /\ atl_records[<<token, "bid">>].size = 10
       /\ atl_records[<<token, "bid">>].timestamp = arrivals[token][1].timestamp

\* C10: the history of an instrument never holds more than MAX_ORDERBOOK_HISTORY
\* snapshots, and it is the most recent MAX_ORDERBOOK_HISTORY (or fewer) of the
\* snapshots ingested for the instrument, in arrival order.
C10_HistoryIsMostRecent ==
    /\ DOMAIN orderbook_data = DOMAIN arrivals
    /\ \A token \in DOMAIN arrivals :
          /\ Len(orderbook_data[token]) <= MAX_ORDERBOOK_HISTORY
          /\ orderbook_data[token] =
                IF Len(arrivals[token]) <= MAX_ORDERBOOK_HISTORY
                THEN arrivals[token]
                ELSE SubSeq(arrivals[token],
                            Len(arrivals[token]) - MAX_ORDERBOOK_HISTORY + 1,
                            Len(arrivals[token]))

\* One more snapshot than the capacity has been ingested for an instrument:
\* the history is full and its oldest entry is the second arrival.
C10_Witness ==
    \E token \in DOMAIN arrivals :
       /\ Len(arrivals[token]) = MAX_ORDERBOOK_HISTORY + 1
       /\ Len(orderbook_data[token]) = MAX_ORDERBOOK_HISTORY
       /\ orderbook_data[token][1] = arrivals[token][2]
       /\ orderbook_data[token][1] # arrivals[token][1]

----------------------------------------------------------------------------
(* ArbitrageExecutor.execute_arbitrage, under SpecExec.  The client calls  *)
(* of one execution are those a step appends to client_calls.              *)

\* C5: when placing leg 1 fails (no trading client, create_order returns no id
\* or throws), leg 2 is never attempted and no cancel is attempted: the only
\* client call, if any, is leg 1's create_order, and the execution returned has
\* order1_id absent, order2_id absent, success = false and an error text.
C5_Leg1FailureAborts ==
    [][LET new == SubSeq(client_calls', Len(client_calls) + 1, Len(client_calls'))
       IN  (/\ last_call'.ended = "returned"
            /\ Len(executions') = Len(executions) + 1
            /\ \/ client = "None"
               \/ /\ Len(new) >= 1
                  /\ new[1].op = "create_order"
                  /\ new[1].outcome # "id")
           => /\ Len(new) = IF client = "None" THEN 0 ELSE 1
              /\ \A i \in 1..Len(new) :
                    /\ new[i].op = "create_order"
                    /\ new[i].token_id = executions'[Len(executions')].opportunity.side1_token_id
              /\ executions'[Len(executions')].order1_id = <<>>
              /\ executions'[Len(executions')].order2_id = <<>>
              /\ executions'[Len(executions')].success = FALSE
              /\ executions'[Len(executions')].error = <<"Failed to place order 1">>
              /\ last_call'.execution = <<executions'[Len(executions')]>>]_vars

\* create_order threw on leg 1: one client call was made and the execution
\* carries no order id.
C5_Witness ==
    /\ client = "ClobClient"
    /\ Len(executions) = 1
    /\ Len(client_calls) = 1
    /\ client_calls[1].op = "create_order"
    /\ client_calls[1].outcome = "throws"
    /\ executions[1].order1_id = <<>>
    /\ executions[1].success = FALSE

\* C6: when leg 1 is placed and leg 2 fails, cancel_order is called exactly
\* once, on leg 1's order id, whether or not the cancel itself fails, and the
\* execution returned has order1_id present, order2_id absent and success = false.
C6_Leg2FailureCancelsOnce ==
    [][LET new == SubSeq(client_calls', Len(client_calls) + 1, Len(client_calls'))
       IN  (/\ last_call'.ended = "returned"
            /\ Len(executions') = Len(executions) + 1
            /\ Len(new) >= 2
            /\ new[1].op = "create_order"
            /\ new[1].outcome = "id"
            /\ new[2].op = "create_order"
            /\ new[2].outcome # "id")
           => /\ Cardinality({i \in 1..Len(new) : new[i].op = "cancel_order"}) = 1
              /\ Len(new) = 3
              /\ new[3].op = "cancel_order"
              /\ new[3].order_id = new[1].order_id
              /\ new[1].order_id # <<>>
              /\ executions'[Len(executions')].order1_id = new[1].order_id
              /\ executions'[Len(executions')].order2_id = <<>>
              /\ executions'[Len(executions')].success = FALSE]_vars

\* Leg 1 placed, leg 2 refused and the cancel itself threw: the last client
\* call is the one cancel, on the id the execution records for leg 1.
C6_Witness ==
    /\ Len(executions) = 1
    /\ Len(client_calls) = 3
    /\ client_calls[2].outcome = "no_id"
    /\ client_calls[3].op = "cancel_order"
    /\ client_calls[3].outcome = "throws"
    /\ client_calls[3].order_id = executions[1].order1_id
    /\ executions[1].order1_id # <<>>
    /\ executions[1].order2_id = <<>>

\* C7: ArbitrageExecutor.execute_arbitrage never raises to its caller: for every
\* opportunity, legs of price 0 included, and every behaviour of the trading
\* client it returns an execution, with success = false and a non-empty error
\* text on any failure.
C7_NeverRaises ==
    /\ last_call.ended # "raised"
    /\ last_call.ended = "returned"
          => \/ last_call.execution[1].success /\ last_call.execution[1].error = <<>>
             \/ ~last_call.execution[1].success /\ last_call.execution[1].error # <<>>

\* execute_arbitrage was called and raised: no execution was appended.
C7_Witness ==
    /\ last_call.ended = "raised"
    /\ executions = <<>>
    /\ client_calls = <<>>

\* Whenever execute_arbitrage does return, a failure carries success = false
\* and an error text, and the call raises exactly for an opportunity with a
\* leg of price 0.
C7_ReturnsUnlessZeroPrice ==
    [][/\ last_call'.ended = "returned"
          => /\ Len(executions') = Len(executions) + 1
             /\ last_call'.execution[1].opportunity.side1_price # Zero
             /\ last_call'.execution[1].opportunity.side2_price # Zero
             /\ last_call'.execution[1].success = (last_call'.execution[1].error = <<>>)
       /\ last_call'.ended = "raised" => UNCHANGED <<executions, client_calls>>]_vars

----------------------------------------------------------------------------
(* The Opportunity Detector, under SpecScan.                               *)

\* C11: for every group with two members, a scan appends a TotalRecord
\* exactly when no sum was recorded for the group before or the sum of the two
\* best asks differs from the last recorded sum by more than 0.001; it then
\* appends exactly one record and sets the last recorded sum to the new sum;
\* otherwise it appends nothing and leaves the last recorded sum unchanged.
C11_TotalRecordDedup ==
    [][(now' # now)
       => /\ Len(total_records') >= Len(total_records)
          /\ SubSeq(total_records', 1, Len(total_records)) = total_records
          /\ \A sn \in {current_snapshots'[i] : i \in 1..Len(current_snapshots')} :
                (/\ Len(Parts(sn.market_name)) >= 2
                 /\ Len(Members(current_snapshots', Parts(sn.market_name)[1])) = 2)
                => LET ev == Parts(sn.market_name)[1]
                       key == <<ev, MarketType(ev)>>
                       mem == Members(current_snapshots', ev)
                       sum == FAdd(mem[1].best_ask, mem[2].best_ask)
                       new == SelectSeq(SubSeq(total_records', Len(total_records) + 1,
                                               Len(total_records')),
                                        LAMBDA r : r.event_id = key)
                   IN  IF \/ key \notin DOMAIN last_totals
                          \/ FLt(Rat(1, 1000), FAbs(FSub(last_totals[key], sum)))
                       THEN /\ Len(new) = 1
                            /\ new[1].total = sum
                            /\ new[1].is_best = FLt(sum, Rat(1, 1))
                            /\ last_totals'[key] = sum
                       ELSE /\ Len(new) = 0
                            /\ last_totals'[key] = last_totals[key]]_vars

\* GameA was recorded at 0.80 and t1's best ask has moved to 0.4005: the sum
\* 0.8005 is within 0.001 of the recorded one and no second record exists.
C11_Witness ==
    /\ <<<<"GameA">>, "Moneyline">> \in DOMAIN last_totals
    /\ last_totals[<<<<"GameA">>, "Moneyline">>] = P(80)
    /\ Len(total_records) = 1
    /\ Len(Members(current_snapshots, <<"GameA">>)) = 2
    /\ FAdd(Members(current_snapshots, <<"GameA">>)[1].best_ask,
            Members(current_snapshots, <<"GameA">>)[2].best_ask) = Rat(8005, 10000)

\* C12: only groups with exactly two members are evaluated: a scan appends no
\* TotalRecord, no best match and no execution for a group that has one member
\* or three or more.
C12_OnlyPairsEvaluated ==
    [][(now' # now)
       => \A ev \in {Markets(e)[1].question : e \in EventIds} :
             Len(Members(current_snapshots', ev)) # 2
             => /\ \A i \in (Len(total_records) + 1)..Len(total_records') :
                      total_records'[i].event_title # ev
                /\ \A i \in (Len(best_matches) + 1)..Len(best_matches') :
                      best_matches'[i].event_title # ev
                /\ \A i \in (Len(executions) + 1)..Len(executions') :
                      executions'[i].opportunity.event_title # ev]_vars

\* GameB Spread has three members, the third with a best ask unlike the
\* others', and the only record for it is the one of 0.60 made when it had two.
C12_Witness ==
    /\ Len(Members(current_snapshots, <<"GameB", "Spread">>)) = 3
    /\ Len(SelectSeq(total_records, LAMBDA r : r.event_title = <<"GameB", "Spread">>)) = 1
    /\ \E i \in 1..Len(total_records) :
          total_records[i].event_title = <<"GameB", "Spread">> /\ total_records[i].total = P(60)
    /\ \E i \in 1..Len(current_snapshots) :
          current_snapshots[i].market_id = "t5" /\ current_snapshots[i].best_ask = P(25)


----------------------------------------------------------------------------
(* The polling path, under SpecPoll.                                       *)

\* C13: every snapshot ingested, through the streaming path or the polling
\* path, is followed by one scan before the next ingest: whenever a group of
\* the current snapshots has two members, the scan that followed the latest
\* ingest has left a recorded sum for it within 0.001 of the sum of the two
\* best asks.
C13_EveryIngestScanned ==
    \A e \in EventIds :
        LET ev  == Markets(e)[1].question
            key == <<ev, MarketType(ev)>>
            mem == Members(current_snapshots, ev)
        IN  Len(mem) = 2
            => /\ key \in DOMAIN last_totals
               /\ ~FLt(Rat(1, 1000),
                       FAbs(FSub(last_totals[key], FAdd(mem[1].best_ask, mem[2].best_ask))))

\* Both instruments of GameA were ingested by process_orderbook_data and no
\* sum was ever recorded.
C13_Witness ==
    /\ Len(Members(current_snapshots, <<"GameA">>)) = 2
    /\ {"t1", "t2"} \subseteq DOMAIN arrivals
    /\ total_records = <<>>
    /\ last_totals = EmptyMap
    /\ poll.pc = "wait"


----------------------------------------------------------------------------
(* The disabled engine, under SpecExec.                                    *)

\* C14: when the trading client could not be constructed (client is None)
\* the engine is disabled for good: no call of execute_arbitrage raises, none
\* invokes create_order or cancel_order, and each returns a failure with no
\* order id.
C14_DisabledEngineFails ==
    client = "None"
    => /\ last_call.ended # "raised"
       /\ client_calls = <<>>
       /\ \A i \in 1..Len(executions) :
             /\ ~executions[i].success
             /\ executions[i].order1_id = <<>>
             /\ executions[i].order2_id = <<>>

\* A disabled engine was called with a leg of price 0 after a call that
\* returned a failure, and the call raised.
C14_Witness ==
    /\ client = "None"
    /\ last_call.ended = "raised"
    /\ Len(executions) = 1
    /\ ~executions[1].success
    /\ client_calls = <<>>


----------------------------------------------------------------------------
(* The execution log, under SpecScan.                                      *)

\* C15: each opportunity the gate accepts produces exactly one
\* ExecutionResult appended to the execution log, and an ExecutionResult in
\* the log is never modified or removed: on every step the old log is a prefix
\* of the new one, and the log grows by one entry for each best match of the
\* step that the gate accepts.
C15_OneResultPerAcceptedOpportunity ==
    [][/\ Len(executions') >= Len(executions)
       /\ SubSeq(executions', 1, Len(executions)) = executions
       /\ arbitrage_executor
          => Len(executions') - Len(executions)
             = Len(SelectSeq(SubSeq(best_matches', Len(best_matches) + 1, Len(best_matches')),
                             LAMBDA o : /\ ~should_execute_raises(auto_execute,
                                                                  min_profit_percent, o.total)
                                        /\ should_execute(auto_execute, min_profit_percent,
                                                          o.total)))]_vars

\* The opportunity of total 0.40 (best asks 0 and 0.40) passed the gate, the
\* executor raised inside the monitor's execute_arbitrage and the log is empty.
C15_Witness ==
    /\ arbitrage_executor
    /\ last_call.ended = "raised"
    /\ Len(best_matches) = 1
    /\ best_matches[1].total = P(40)
    /\ should_execute(auto_execute, min_profit_percent, P(40))
    /\ executions = <<>>


----------------------------------------------------------------------------
(* The snapshot of a frame, under SpecStore.                               *)

\* C16: for every frame with non-empty bids and asks, in whatever order they
\* are listed, the snapshot produced has best_bid equal to the maximum bid
\* price, with that entry's size, and best_ask equal to the minimum ask price,
\* with that entry's size.
C16_BestBidIsMaxBestAskIsMin ==
    last_frame # <<>>
    => \A i \in 1..Len(current_snapshots) :
          current_snapshots[i].timestamp = now
          => /\ \E k \in 1..Len(last_frame[1].bids) :
                   /\ last_frame[1].bids[k].price = current_snapshots[i].best_bid
                   /\ last_frame[1].bids[k].size = current_snapshots[i].bid_size
                   /\ \A j \in 1..Len(last_frame[1].bids) :
                         ~FLt(current_snapshots[i].best_bid, last_frame[1].bids[j].price)
             /\ \E k \in 1..Len(last_frame[1].asks) :
                   /\ last_frame[1].asks[k].price = current_snapshots[i].best_ask
                   /\ last_frame[1].asks[k].size = current_snapshots[i].ask_size
                   /\ \A j \in 1..Len(last_frame[1].asks) :
                         ~FLt(last_frame[1].asks[j].price, current_snapshots[i].best_ask)

\* The frame listed bids of 0.20 and then 0.35: the snapshot's best bid is 0.20.
C16_Witness ==
    /\ last_frame # <<>>
    /\ Len(last_frame[1].bids) = 2
    /\ last_frame[1].bids[2].price = P(35)
    /\ \E i \in 1..Len(current_snapshots) :
          /\ current_snapshots[i].timestamp = now
          /\ current_snapshots[i].best_bid = P(20)
          /\ current_snapshots[i].best_ask = P(38)


----------------------------------------------------------------------------
(* The feed loop, under SpecFeed.                                          *)

\* C17: while running stays true, every loss of the streaming connection (a
\* failed connect, a closed connection or a connection error) is eventually
\* followed by a new connection attempt, after a sleep of the fixed delay of
\* 5 units: the retries are unbounded and the delay never grows.
C17_ReconnectAfterFixedDelay ==
    /\ [](feeds["sleep"] > 0 => sleeping = 5)
    /\ [][(running /\ feeds'["after"] < feeds["after"])
          => /\ feeds'["sleep"] = feeds["sleep"] + 1
             /\ sleeping' = 5]_vars
    /\ (feeds["after"] > 0 /\ running) ~> (feeds["connect"] > 0 \/ ~running)

\* A connection was made and lost while running: the one thread sleeps the
\* delay of 5 before its next attempt.
C17_Witness ==
    /\ running
    /\ feeds["sleep"] = 1
    /\ sleeping = 5
    /\ "t1" \in DOMAIN token_to_market
    /\ LiveThreads = 1

\* C18: after stop() has set running to false, and as long as the flag is not
\* set again, the feed loop terminates: every thread sees the flag after at
\* most the receive or the reconnect sleep it is in, no thread begins a
\* connection attempt, a receive or a sleep while the flag is false, and the
\* only snapshot a thread can still ingest is the one of the receive it was
\* in when the flag was cleared.
C18_StopTerminatesFeed ==
    /\ [][(~running /\ ~running')
          => /\ feeds'["connect"] <= feeds["connect"]
             /\ feeds'["recv"] <= feeds["recv"]
             /\ feeds'["sleep"] <= feeds["sleep"]
             /\ (now' # now => feeds'["recv"] < feeds["recv"])
             /\ (LiveThreads = 0 => now' = now /\ LiveThreads' = 0)]_vars
    /\ (~running) ~> (LiveThreads = 0 \/ running)

\* stop() was called while the thread was receiving; the thread has ended,
\* with a snapshot stored and the Registry written.
C18_Witness ==
    /\ ~running
    /\ LiveThreads = 0
    /\ now > 0
    /\ "t1" \in DOMAIN token_to_market


----------------------------------------------------------------------------
(* Failed fetches of a polling cycle, under SpecPoll.                      *)

\* C19: in a polling cycle a failed fetch is only logged: it leaves the
\* State Store unchanged and does not abort the cycle, whose other fetches
\* are still pending and, when they succeed with bids and asks, are ingested;
\* the loop then goes on to its next cycle and ends only when running is false.
C19_FailedFetchSkipsInstrument ==
    [][/\ \A f \in poll'.fetched \ poll.fetched :
             IF f.error
             THEN /\ store_vars' = store_vars
                  /\ detector_vars' = detector_vars
                  /\ poll'.pc = "wait"
                  /\ poll'.tasks = {t \in poll.tasks : t.token_id # f.token_id}
             ELSE /\ poll'.pc = "wait"
                  /\ (f.bids # <<>> /\ f.asks # <<>>)
                     => /\ now' = now + 1
                        /\ \E i \in 1..Len(current_snapshots') :
                              /\ current_snapshots'[i].market_id = f.token_id
                              /\ current_snapshots'[i].timestamp = now'
                              /\ current_snapshots'[i].best_ask = MinAsk(f.asks).price
       /\ (poll.pc = "wait" /\ poll.tasks = {} /\ poll'.pc # "wait") => poll'.pc = "sleep"
       /\ (poll.pc = "sleep" /\ poll'.pc # "sleep") => poll'.pc = "top"
       /\ (poll.pc # "ended" /\ poll'.pc = "ended") => (poll.pc = "top" /\ ~running)]_vars

\* In one cycle the fetch of t1 failed and the fetch of t2, completed after
\* it, was ingested: t2 has a snapshot and t1 has none.
C19_Witness ==
    /\ \E f \in poll.fetched, g \in poll.fetched :
          /\ f.error /\ f.token_id = "t1"
          /\ ~g.error /\ g.token_id = "t2" /\ g.at > f.at
    /\ "t2" \in DOMAIN arrivals
    /\ "t1" \notin DOMAIN arrivals
    /\ poll.pc = "top"


----------------------------------------------------------------------------
(* The Registry, under SpecFeed.                                           *)

\* C20: the Registry is rebuilt in full on every subscribe, unsubscribe and
\* feed (re)connect: after each of them it holds exactly the instruments of
\* the events subscribed at that moment, under their names.
C20_RegistryIsExactlySubscribed ==
    [][(\/ subscribed_markets' # subscribed_markets
        \/ feeds'["enum"] < feeds["enum"] /\ feeds'["listen"] > feeds["listen"])
       => /\ DOMAIN token_to_market'
             = {p.token_id : p \in PollTasks(RegistryPairs(subscribed_markets', 1))}
          /\ \A p \in PollTasks(RegistryPairs(subscribed_markets', 1)) :
                /\ token_to_market'[p.token_id] = p.market_name
                /\ p.market_name \in DOMAIN market_to_token'
                /\ market_to_token'[p.market_name] = p.token_id]_vars

\* e1 was unsubscribed and the feed is connected: the Registry still names
\* both instruments of e1.
C20_Witness ==
    /\ subscribed_markets = <<>>
    /\ {"t1", "t2"} \subseteq DOMAIN token_to_market
    /\ running
    /\ feeds["listen"] = 1


----------------------------------------------------------------------------
(* The two forms of the stake calculator, under SpecCalc.                  *)

\* C21: calculate_stakes_3way applied to two outcomes, the third price being
\* 0, returns the stakes of calculate_stakes for the same two prices and
\* bankroll and a stake of zero for the absent outcome; it raises exactly when
\* calculate_stakes does.
C21_ThreeWaySubsumesTwoWay ==
    (calc.fn = "calculate_stakes_3way" /\ calc.price3 = Zero)
    => /\ calc.raised = calculate_stakes_raises(calc.price1, calc.price2, calc.bank)
       /\ ~calc.raised
          => /\ Len(calc.out) = 3
             /\ <<calc.out[1], calc.out[2]>>
                   = calculate_stakes(calc.price1, calc.price2, calc.bank)
             /\ calc.out[3] = Zero

\* Prices 0.49 and 0.48 with no third outcome and a bankroll of 100.
C21_Witness ==
    /\ calc.fn = "calculate_stakes_3way"
    /\ calc.price1 = P(49)
    /\ calc.price2 = P(48)
    /\ calc.price3 = Zero
    /\ calc.bank = Rat(100, 1)
    /\ calc.out = <<Rat(4900, 97), Rat(4800, 97), Zero>>


----------------------------------------------------------------------------
(* TotalRecords and opportunities, under SpecStore.                        *)

\* C22: every TotalRecord has is_best = (total < 1.0), and a best match is
\* appended for a TotalRecord exactly when its is_best is true: the best
\* matches are, in order, the records with is_best true, and so are as many.
C22_BestMatchIffIsBest ==
    /\ \A i \in 1..Len(total_records) :
          total_records[i].is_best = FLt(total_records[i].total, Rat(1, 1))
    /\ Len(best_matches) = Len(SelectSeq(total_records, LAMBDA r : r.is_best))
    /\ \A i \in 1..Len(best_matches) :
          LET r == SelectSeq(total_records, LAMBDA x : x.is_best)[i]
          IN  /\ best_matches[i].event_id = r.event_id
              /\ best_matches[i].total = r.total
              /\ best_matches[i].timestamp = r.timestamp

\* GameA was recorded at a total of exactly 1.00 (no best match) and then at
\* a total under 1 (one best match).
C22_Witness ==
    /\ Len(total_records) = 2
    /\ total_records[1].total = Rat(1, 1)
    /\ ~total_records[1].is_best
    /\ total_records[2].is_best
    /\ Len(best_matches) = 1


----------------------------------------------------------------------------
(* Frames that cannot be parsed, under SpecFeed.                           *)

\* C23: a frame received on the streaming connection that cannot be parsed
\* closes the connection and, while the monitor is running, leads to a
\* reconnect after the fixed delay: the thread that caught the parse error
\* leaves the connection, and then sleeps for 5 before it connects again.
C23_UnparsableFrameClosesConnection ==
    [][feeds'["error"] < feeds["error"]
       => /\ feeds'["after"] = feeds["after"] + 1
          /\ feeds'["listen"] = feeds["listen"]]_vars

\* The thread is in the handler of a frame it could not parse, the monitor running.
C23_Witness ==
    /\ running
    /\ feeds["error"] = 1
    /\ LiveThreads = 1
    /\ "t1" \in DOMAIN token_to_market


----------------------------------------------------------------------------
(* Malformed items, under SpecFeed.                                        *)

\* C24: a malformed item (no instrument id, a missing price or size field,
\* an unparseable number, an empty bid or ask list) is skipped and changes
\* nothing in the State Store: no order book that was turned into a snapshot
\* has an entry without a parseable price or size.
C24_MalformedItemIsSkipped ==
    last_frame # <<>>
    => /\ \A i \in 1..Len(last_frame[1].bids) :
             /\ last_frame[1].bids[i].price # NoPrice
             /\ last_frame[1].bids[i].size # NoSize
       /\ \A i \in 1..Len(last_frame[1].asks) :
             /\ last_frame[1].asks[i].price # NoPrice
             /\ last_frame[1].asks[i].size # NoSize

\* The book whose second bid has no parseable price is the current snapshot of t1.
C24_Witness ==
    /\ last_frame # <<>>
    /\ Len(last_frame[1].bids) = 2
    /\ last_frame[1].bids[2].price = NoPrice
    /\ \E i \in 1..Len(current_snapshots) :
          /\ current_snapshots[i].market_id = "t1"
          /\ current_snapshots[i].timestamp = now
          /\ current_snapshots[i].best_bid = P(30)


----------------------------------------------------------------------------
(* Ingestion loops, under SpecFeed.                                        *)

\* C25: at any time at most one ingestion loop (stream loop or polling
\* loop) is running against the State Store, for every interleaving of start,
\* stop and restart_monitor, a stop immediately followed by a start included.
C25_AtMostOneIngestionLoop ==
    LiveThreads + (IF poll.pc \in {"top", "wait", "sleep"} THEN 1 ELSE 0) <= 1

\* stop() and then start() were called while the first thread was connected:
\* it never saw the flag false, and two threads are now receiving.
C25_Witness ==
    /\ running
    /\ feeds["recv"] = 2
    /\ LiveThreads = 2

----------------------------------------------------------------------------
(* Access to the shared state, under SpecFeed.                             *)

\* C26: all mutating access to the shared state is serialized: a
\* subscribe or unsubscribe on a caller thread never changes
\* subscribed_markets while an ingestion thread is in the middle of
\* enumerating it (it holds an iterator over subscribed_markets.items()).
C26_MutationsAreSerialized ==
    [][feeds["enum"] > 0 => subscribed_markets' = subscribed_markets]_vars

\* A thread wrote the instruments of the first event into the Registry and
\* still holds its iterator, and the dict no longer has the size the
\* iterator remembered: the next step of the loop raises RuntimeError.
C26_Witness ==
    \E i \in 1..Len(cursors) :
        /\ cursors[i].idx > 0
        /\ cursors[i].size # Len(subscribed_markets)
        /\ "t1" \in DOMAIN token_to_market

----------------------------------------------------------------------------
(* Execution and ingestion, under SpecBlock.                               *)

\* C27: execution blocks ingestion: between a scan triggering an execution
\* and that execution's ExecutionResult being appended to the execution log,
\* no other snapshot is ingested and no other scan runs.
C27_ExecutionBlocksIngestion ==
    [][blocked # <<>> => arrivals' = arrivals]_vars

\* The same of the thread that executes alone: while it waits in the executor
\* call and no other feed thread lives, nothing is ingested.
C27_BlocksItsOwnThread ==
    [][(blocked # <<>> /\ LiveThreads = 1) => arrivals' = arrivals]_vars

\* A thread still waits in the executor call its scan made, and a second
\* thread has ingested a later snapshot.
C27_Witness ==
    /\ LiveThreads = 2
    /\ \E k \in 1..Len(blocked) :
          /\ blocked[k].ts < now
          /\ \E t \in DOMAIN arrivals :
                arrivals[t][Len(arrivals[t])].timestamp > blocked[k].ts

----------------------------------------------------------------------------
(* The executor's statistics, under SpecExec.                              *)

\* C28: in every reachable state of the executor, successful_trades is the
\* number of executions in the log with success true, failed_trades the
\* number with success false, and their sum the length of the log.
C28_CountersMatchLog ==
    /\ successful_trades = Len(SelectSeq(executions, LAMBDA e : e.success))
    /\ failed_trades = Len(SelectSeq(executions, LAMBDA e : ~e.success))
    /\ successful_trades + failed_trades = Len(executions)

\* The first execution failed and the second succeeded.
C28_Witness ==
    /\ successful_trades = 1
    /\ failed_trades = 1
    /\ Len(executions) = 2
    /\ ~executions[1].success
    /\ executions[2].success

----------------------------------------------------------------------------
(* The profit of an execution, under SpecExec.                             *)

\* bankroll * (1 - (p1 + p2)) / (p1 + p2)
GuaranteedProfit(p1, p2) ==
    FDiv(FMul(bankroll, FSub(Rat(1, 1), FAdd(p1, p2))), FAdd(p1, p2))

\* The execution e added to total_profit the guaranteed profit of its leg
\* prices, which is also what each outcome pays over the two stakes.
ProfitIsGuaranteed(e, before, after) ==
    /\ FSub(after, before)
          = GuaranteedProfit(e.opportunity.side1_price, e.opportunity.side2_price)
    /\ FSub(FDiv(e.stake1, e.opportunity.side1_price), FAdd(e.stake1, e.stake2))
          = GuaranteedProfit(e.opportunity.side1_price, e.opportunity.side2_price)
    /\ FSub(FDiv(e.stake2, e.opportunity.side2_price), FAdd(e.stake1, e.stake2))
          = GuaranteedProfit(e.opportunity.side1_price, e.opportunity.side2_price)

\* C29, as the code has it: a successful execution with leg prices p1, p2
\* increases total_profit by exactly bankroll * (1 - (p1 + p2)) / (p1 + p2),
\* the profit that is the same for both outcomes; the increment is positive
\* whenever p1 + p2 < 1 and the bankroll is positive.
C29_ProfitPositiveForPositiveBankroll ==
    [][successful_trades' = successful_trades + 1
       => /\ ProfitIsGuaranteed(executions'[Len(executions')], total_profit, total_profit')
          /\ (/\ FLt(executions'[Len(executions')].opportunity.total, Rat(1, 1))
              /\ FLt(Zero, bankroll))
             => FLt(total_profit, total_profit')]_vars

\* C29, as stated: a successful execution with leg prices p1, p2 increases
\* total_profit by exactly bankroll * (1 - (p1 + p2)) / (p1 + p2), the profit
\* that is the same for both outcomes, and the increment is positive whenever
\* p1 + p2 < 1.
C29_ProfitPositiveBelowOne ==
    [][successful_trades' = successful_trades + 1
       => /\ ProfitIsGuaranteed(executions'[Len(executions')], total_profit, total_profit')
          /\ FLt(executions'[Len(executions')].opportunity.total, Rat(1, 1))
             => FLt(total_profit, total_profit')]_vars

\* With a bankroll of 100 an execution at 0.30 and 0.60 succeeded:
\* total_profit is 100 * 0.1 / 0.9.
C29_Witness ==
    /\ bankroll = Rat(100, 1)
    /\ Len(executions) = 1
    /\ executions[1].success
    /\ executions[1].opportunity.side1_price = P(30)
    /\ executions[1].opportunity.side2_price = P(60)
    /\ total_profit = Rat(100, 9)

----------------------------------------------------------------------------
(* What a failed execution leaves alone, under SpecExec.                   *)

\* C30: a failed execution (leg 1 or leg 2 failed) leaves total_profit and
\* successful_trades unchanged and increments failed_trades by exactly 1; no
\* execution, successful or failed, changes the configured bankroll,
\* min_profit_percent or auto_execute.
C30_FailedExecutionFrame ==
    [][/\ (/\ Len(executions') = Len(executions) + 1
           /\ ~executions'[Len(executions')].success)
          => /\ total_profit' = total_profit
             /\ successful_trades' = successful_trades
             /\ failed_trades' = failed_trades + 1
       /\ executions' # executions
          => /\ bankroll' = bankroll
             /\ min_profit_percent' = min_profit_percent
             /\ auto_execute' = auto_execute]_vars

\* With a bankroll of 100, leg 1 of the first execution failed and leg 2 of
\* the second: two failures counted, no profit.
C30_Witness ==
    /\ bankroll = Rat(100, 1)
    /\ Len(executions) = 2
    /\ executions[1].order1_id = <<>>
    /\ executions[2].order1_id # <<>>
    /\ executions[2].order2_id = <<>>
    /\ executions[2].opportunity.total = P(60)
    /\ failed_trades = 2
    /\ successful_trades = 0
    /\ total_profit = Zero

----------------------------------------------------------------------------
(* Executions of the detection path, under SpecTrade.                      *)

\* The executions a step appended for the group key.
NewExecutions(key) ==
    SelectSeq(SubSeq(executions', Len(executions) + 1, Len(executions')),
              LAMBDA e : <<e.opportunity.event_title, e.opportunity.market_type>> = key)

\* The TotalRecords a step appended for the group key.
NewTotalRecords(key) ==
    SelectSeq(SubSeq(total_records', Len(total_records) + 1, Len(total_records')),
              LAMBDA r : r.event_id = key)

\* C31: an ingestion that leaves a group's sum within 0.001 of the sum last
\* recorded for it triggers no execution: for each group a step appends at
\* most as many executions as TotalRecords, and an execution is appended only
\* when no sum was recorded for its group or the sum has moved from the
\* recorded one by more than 0.001; the sum executed is then the recorded one.
C31_NoExecutionWithinEpsilon ==
    [][\A j \in (Len(executions) + 1)..Len(executions') :
          /\ \/ <<executions'[j].opportunity.event_title,
                   executions'[j].opportunity.market_type>> \notin DOMAIN last_totals
             \/ FLt(Rat(1, 1000),
                    FAbs(FSub(last_totals[<<executions'[j].opportunity.event_title,
                                            executions'[j].opportunity.market_type>>],
                              executions'[j].opportunity.total)))
          /\ last_totals'[<<executions'[j].opportunity.event_title,
                            executions'[j].opportunity.market_type>>]
                = executions'[j].opportunity.total
          /\ Len(NewExecutions(<<executions'[j].opportunity.event_title,
                                 executions'[j].opportunity.market_type>>))
                <= Len(NewTotalRecords(<<executions'[j].opportunity.event_title,
                                         executions'[j].opportunity.market_type>>))]_vars

\* GameA was executed at 0.76 and t1's best ask has moved to 0.3805: the sum
\* 0.7605 still passes the gate, and there is one execution and one record.
C31_Witness ==
    /\ Len(executions) = 1
    /\ executions[1].opportunity.total = P(76)
    /\ Len(total_records) = 1
    /\ Len(Members(current_snapshots, <<"GameA">>)) = 2
    /\ FAdd(Members(current_snapshots, <<"GameA">>)[1].best_ask,
            Members(current_snapshots, <<"GameA">>)[2].best_ask) = Rat(7605, 10000)
    /\ should_execute(auto_execute, min_profit_percent, Rat(7605, 10000))

----------------------------------------------------------------------------
(* Unsubscribing, under SpecTrade.                                         *)

\* The snapshots ingested so far for the instruments of an event.
ArrivalsOf(arr, event_id) ==
    [t \in {p.token_id : p \in PollTasks(EventPairs(Markets(event_id), 1))} \cap DOMAIN arr
        |-> arr[t]]

\* The event is in subscribed_markets.
Subscribed(event_id) ==
    \E i \in 1..Len(subscribed_markets) : subscribed_markets[i] = event_id

\* C32: after unsubscribe_from_match(event) has returned, no snapshot of the
\* event's instruments is ingested any more and no TotalRecord, opportunity
\* or order is produced for the event's groups, whatever frames arrive: once
\* the feed has connected with e1 subscribed and e1 is subscribed no more, no
\* step ingests a snapshot of t1 or t2, and while the other listing of GameA
\* is not subscribed either, no step appends a TotalRecord, a best match, an
\* execution or a client call.
C32_UnsubscribedEventIsSilent ==
    [][(~Subscribed("e1") /\ {"t1", "t2"} \subseteq DOMAIN token_to_market)
       => /\ ArrivalsOf(arrivals', "e1") = ArrivalsOf(arrivals, "e1")
          /\ ~Subscribed("e3")
             => /\ total_records' = total_records
                /\ best_matches' = best_matches
                /\ executions' = executions
                /\ client_calls' = client_calls]_vars

\* e1 was unsubscribed before any frame arrived: the thread is connected and
\* receives, nothing is subscribed and the Registry still names t1 and t2.
C32_Witness ==
    /\ subscribed_markets = <<>>
    /\ running
    /\ feeds["recv"] = 1
    /\ arrivals = EmptyMap
    /\ {"t1", "t2"} \subseteq DOMAIN token_to_market

----------------------------------------------------------------------------
(* What an execution of the detection path carries, under SpecTrade.       *)

\* C33: every execution the monitor's detection path appends carries an
\* opportunity with total = side1_price + side2_price < 1.0 and
\* profit_percent = (1 - total) / total * 100 >= min_profit_percent, and
\* stakes with stake1 + stake2 equal to the configured bankroll.
C33_ExecutedOpportunityPassedTheGate ==
    \A j \in 1..Len(executions) :
        /\ executions[j].opportunity.total
              = FAdd(executions[j].opportunity.side1_price,
                     executions[j].opportunity.side2_price)
        /\ FLt(executions[j].opportunity.total, Rat(1, 1))
        /\ executions[j].opportunity.profit_percent
              = FMul(FDiv(FSub(Rat(1, 1), executions[j].opportunity.total),
                          executions[j].opportunity.total),
                     Rat(100, 1))
        /\ FGe(executions[j].opportunity.profit_percent, min_profit_percent)
        /\ FAdd(executions[j].stake1, executions[j].stake2) = bankroll

\* With a minimum profit of 35 the pair at 0.38 and 0.36 (35.1 percent) was
\* executed, with stakes of 100 * 0.38 / 0.74 and 100 * 0.36 / 0.74.
C33_Witness ==
    /\ min_profit_percent = Rat(35, 1)
    /\ Len(executions) = 1
    /\ executions[1].opportunity.total = P(74)
    /\ executions[1].stake1 = Rat(3800, 74)
    /\ executions[1].stake2 = Rat(3600, 74)

----------------------------------------------------------------------------
(* The instruments an execution trades, under SpecTrade.                   *)

\* The legs of the opportunity are the two members of its group, each under
\* its own instrument id.
LegsAreTheSnapshots(opportunity, members) ==
    /\ Len(members) = 2
    /\ opportunity.side1_token_id = members[1].market_id
    /\ opportunity.side1_price = members[1].best_ask
    /\ opportunity.side2_token_id = members[2].market_id
    /\ opportunity.side2_price = members[2].best_ask
    /\ opportunity.side1_token_id # opportunity.side2_token_id

\* C34: the two legs of every executed opportunity are two distinct
\* instruments, and each leg's order is placed on the instrument whose
\* current snapshot supplied that leg's price, also when two subscribed
\* instruments share the same display name.
C34_LegsTradeTheirOwnInstruments ==
    [][\A j \in (Len(executions) + 1)..Len(executions') :
          LegsAreTheSnapshots(executions'[j].opportunity,
                              Members(current_snapshots',
                                      executions'[j].opportunity.event_title))]_vars

\* The same while no instrument of the second listing of GameA is in the
\* Registry: every display name then belongs to one instrument.
C34_LegsResolveWhenNamesAreUnique ==
    [][\A j \in (Len(executions) + 1)..Len(executions') :
          "t6" \notin DOMAIN token_to_market
          => LegsAreTheSnapshots(executions'[j].opportunity,
                                 Members(current_snapshots',
                                         executions'[j].opportunity.event_title))]_vars

\* t1 and t6 are both named GameA - Yes; their pair at 0.38 and 0.36 was
\* executed and both orders were created on the same instrument.
C34_Witness ==
    /\ Len(executions) = 1
    /\ executions[1].opportunity.side1_price = P(38)
    /\ executions[1].opportunity.side2_price = P(36)
    /\ executions[1].opportunity.side1_token_id = executions[1].opportunity.side2_token_id
    /\ Len(client_calls) = 2
    /\ client_calls[1].token_id = client_calls[2].token_id
    /\ client_calls[2].op = "create_order"

----------------------------------------------------------------------------
(* The two maps of the Registry, under SpecTrade.                          *)

\* Every registered instrument id is found again under its own name.
TokensResolveBack ==
    \A t \in DOMAIN token_to_market :
        /\ token_to_market[t] \in DOMAIN market_to_token
        /\ market_to_token[token_to_market[t]] = t

\* Every registered name is the name of the instrument it resolves to.
NamesResolveBack ==
    \A n \in DOMAIN market_to_token :
        /\ market_to_token[n] \in DOMAIN token_to_market
        /\ token_to_market[market_to_token[n]] = n

\* C35: the two maps of the Registry are mutual inverses in every reachable
\* state: market_to_token[token_to_market[t]] = t for every instrument id t in
\* token_to_market, and token_to_market[market_to_token[n]] = n for every name
\* n in market_to_token.
C35_RegistryMapsAreInverses ==
    TokensResolveBack /\ NamesResolveBack

\* C35, the half that holds: every name of market_to_token is the name its
\* instrument has in token_to_market.
C35_NamesResolveBack ==
    NamesResolveBack

\* Both listings of GameA are registered, e3 after e1: t1 is named GameA - Yes,
\* and GameA - Yes resolves to t6.
C35_Witness ==
    /\ {"t1", "t6"} \subseteq DOMAIN token_to_market
    /\ token_to_market["t1"] = token_to_market["t6"]
    /\ market_to_token[token_to_market["t1"]] = "t6"
    /\ NamesResolveBack


----------------------------------------------------------------------------
(* The extremes and the current snapshot, under SpecStore.                 *)

\* The price of a snapshot on a side.
SidePrice(snapshot, side) ==
    IF side = "bid" THEN snapshot.best_bid ELSE snapshot.best_ask

\* self.current_snapshots.get(token): the entries stored under the token.
CurrentOf(token) ==
    {current_snapshots[i] : i \in {j \in 1..Len(current_snapshots) :
                                      current_snapshots[j].market_id = token}}

====
